---------------------------- MODULE Spec2Model ----------------------------
(***************************************************************************)
(* Metadata extraction of go-trafilatura (src/metadata.go).                *)
(*                                                                         *)
(* extractMetadata is a pure pipeline over a parsed HTML tree.  The tree   *)
(* is modelled by what the selectors of the code read from it: the <meta>  *)
(* elements, the JSON-LD scripts (already tokenised into JSON values), the *)
(* <title>, <h1>, <h2> texts, the <link> elements and the nodes matched by *)
(* the selector tables.  Strings are TLA+ strings, read character by       *)
(* character, so that the regular expressions and the string helpers of    *)
(* the code are computed and not assumed.                                  *)
(***************************************************************************)
EXTENDS Integers, Sequences, FiniteSets, TLC

(***************************************************************************)
(* Bounds of the model.                                                    *)
(***************************************************************************)
\* the largest number of <meta> elements drawn freely from a pool
MaxMetas == 2
\* the largest number of raw category / tag entries drawn freely from a pool
MaxEntries == 2
\* the largest number of JSON-LD scripts drawn freely from a pool
MaxScripts == 3
\* the deepest nesting of the objects of a JSON-LD value
MaxNesting == 4

(***************************************************************************)
(* Characters and strings.                                                 *)
(***************************************************************************)
Ch(s, i) == SubSeq(s, i, i)

LowerLetters == "abcdefghijklmnopqrstuvwxyz"
UpperLetters == "ABCDEFGHIJKLMNOPQRSTUVWXYZ"

\* position of character c in the string abc, 0 when absent
IndexIn(c, abc) ==
    IF \E i \in 1..Len(abc) : Ch(abc, i) = c
    THEN CHOOSE i \in 1..Len(abc) : Ch(abc, i) = c
    ELSE 0

IsLowerCh(c) == IndexIn(c, LowerLetters) > 0
IsUpperCh(c) == IndexIn(c, UpperLetters) > 0
IsDigitCh(c) == IndexIn(c, "0123456789") > 0
IsLetterCh(c) == IsLowerCh(c) \/ IsUpperCh(c)
\* \w of the regular expressions
IsWordCh(c) == IsLetterCh(c) \/ IsDigitCh(c) \/ c = "_"
\* \s of the regular expressions and unicode.IsSpace on the model's alphabet
IsSpaceCh(c) == c \in {" ", "\t", "\n"}

ToLowerCh(c) == IF IsUpperCh(c) THEN Ch(LowerLetters, IndexIn(c, UpperLetters)) ELSE c
ToUpperCh(c) == IF IsLowerCh(c) THEN Ch(UpperLetters, IndexIn(c, LowerLetters)) ELSE c

RECURSIVE MapFrom(_, _, _)
MapFrom(s, i, lower) ==
    IF i > Len(s) THEN ""
    ELSE (IF lower THEN ToLowerCh(Ch(s, i)) ELSE ToUpperCh(Ch(s, i))) \o MapFrom(s, i + 1, lower)

\* strings.ToLower
ToLower(s) == MapFrom(s, 1, TRUE)

\* strings.HasPrefix
HasPrefix(s, p) == Len(p) <= Len(s) /\ SubSeq(s, 1, Len(p)) = p

\* s has sub at position i
MatchAt(s, i, sub) == i >= 1 /\ i + Len(sub) - 1 <= Len(s) /\ SubSeq(s, i, i + Len(sub) - 1) = sub

\* case-insensitive MatchAt, sub in lower case
MatchAtI(s, i, sub) ==
    i >= 1 /\ i + Len(sub) - 1 <= Len(s) /\ ToLower(SubSeq(s, i, i + Len(sub) - 1)) = sub

\* strings.Contains
Contains(s, sub) == \E i \in 1..(Len(s) + 1) : MatchAt(s, i, sub)

\* strings.TrimPrefix
TrimPrefix(s, p) == IF HasPrefix(s, p) THEN SubSeq(s, Len(p) + 1, Len(s)) ELSE s

\* the first position >= i of s whose character satisfies "is in set cs", Len(s)+1 when none
RECURSIVE FirstOf(_, _, _)
FirstOf(s, i, cs) ==
    IF i > Len(s) THEN Len(s) + 1
    ELSE IF Ch(s, i) \in cs THEN i
    ELSE FirstOf(s, i + 1, cs)

\* strings.Fields: the maximal runs of non-space characters
RECURSIVE FieldsFrom(_, _, _, _)
FieldsFrom(s, i, cur, acc) ==
    IF i > Len(s) THEN (IF cur = "" THEN acc ELSE Append(acc, cur))
    ELSE IF IsSpaceCh(Ch(s, i))
         THEN FieldsFrom(s, i + 1, "", IF cur = "" THEN acc ELSE Append(acc, cur))
         ELSE FieldsFrom(s, i + 1, cur \o Ch(s, i), acc)

Fields(s) == FieldsFrom(s, 1, "", <<>>)

\* strings.Join
RECURSIVE Join(_, _)
Join(ss, sep) ==
    IF Len(ss) = 0 THEN ""
    ELSE IF Len(ss) = 1 THEN ss[1]
    ELSE ss[1] \o sep \o Join(Tail(ss), sep)

\* strings.TrimSpace
RECURSIVE TrimLeft(_)
TrimLeft(s) == IF Len(s) > 0 /\ IsSpaceCh(Ch(s, 1)) THEN TrimLeft(SubSeq(s, 2, Len(s))) ELSE s
RECURSIVE TrimRight(_)
TrimRight(s) ==
    IF Len(s) > 0 /\ IsSpaceCh(Ch(s, Len(s))) THEN TrimRight(SubSeq(s, 1, Len(s) - 1)) ELSE s
TrimSpace(s) == TrimRight(TrimLeft(s))

\* strings.Title: the first letter of every word in upper case; a word starts
\* after any character that is not a letter, a digit or an underscore
RECURSIVE TitleFrom(_, _, _)
TitleFrom(s, i, prevSep) ==
    IF i > Len(s) THEN ""
    ELSE (IF prevSep THEN ToUpperCh(Ch(s, i)) ELSE Ch(s, i))
         \o TitleFrom(s, i + 1, ~IsWordCh(Ch(s, i)))

Title(s) == TitleFrom(s, 1, TRUE)

(***************************************************************************)
(* String helpers of the package that src/ calls (whitespace collapse,     *)
(* membership, first non-empty, word count, rune access).                  *)
(***************************************************************************)
strNormalize(s) == Join(Fields(s), " ")
strIn(s, set) == s \in set
strOr(a, b) == IF a # "" THEN a ELSE b
strWordCount(s) == Len(Fields(s))
getRune(s, i) == IF i + 1 <= Len(s) THEN Ch(s, i + 1) ELSE ""

(***************************************************************************)
(* URL helpers of the package that src/ calls: the absolute-URL test, the  *)
(* resolution of a reference against the default URL and the domain of a   *)
(* URL.  They follow net/url: ParseRequestURI accepts an absolute URI or   *)
(* an absolute path; a URL is absolute when it has a scheme and a host.    *)
(***************************************************************************)
NoURL == [none |-> TRUE]
BadURL == [ok |-> FALSE, scheme |-> "", host |-> "", path |-> ""]

\* characters net/url refuses in a host name
BadHostChars == {" ", "\t", "\n", "/", "?", "@", "{", "}", "|", "\\", "^", "%", "#"}

\* the least and the greatest element of a non-empty set of numbers
MinOf(S) == CHOOSE x \in S : \A y \in S : x <= y
MaxOf(S) == CHOOSE x \in S : \A y \in S : x >= y

\* net/url getScheme: [ok, scheme, rest]
RECURSIVE getSchemeFrom(_, _)
getSchemeFrom(s, i) ==
    IF i > Len(s) THEN [ok |-> TRUE, scheme |-> "", rest |-> s]
    ELSE IF IsLetterCh(Ch(s, i)) THEN getSchemeFrom(s, i + 1)
    ELSE IF IsDigitCh(Ch(s, i)) \/ Ch(s, i) \in {"+", "-", "."}
         THEN (IF i = 1 THEN [ok |-> TRUE, scheme |-> "", rest |-> s]
               ELSE getSchemeFrom(s, i + 1))
    ELSE IF Ch(s, i) = ":"
         THEN (IF i = 1 THEN [ok |-> FALSE, scheme |-> "", rest |-> s]
               ELSE [ok |-> TRUE, scheme |-> SubSeq(s, 1, i - 1),
                     rest |-> SubSeq(s, i + 1, Len(s))])
    ELSE [ok |-> TRUE, scheme |-> "", rest |-> s]

\* the last position of character c in s, 0 when absent
RECURSIVE LastIndexFrom(_, _, _)
LastIndexFrom(s, c, i) ==
    IF i = 0 THEN 0
    ELSE IF Ch(s, i) = c THEN i
    ELSE LastIndexFrom(s, c, i - 1)

LastIndexOf(s, c) == LastIndexFrom(s, c, Len(s))

\* URL.Hostname: the host without its port
hostnameOf(h) ==
    LET cut(k) ==
            IF k > 0 /\ \A j \in (k + 1)..Len(h) : IsDigitCh(Ch(h, j)) THEN SubSeq(h, 1, k - 1)
            ELSE h
    IN  cut(LastIndexOf(h, ":"))

\* net/url parse; viaRequest is ParseRequestURI.  [ok, scheme, host, path]
urlParse(s, viaRequest) ==
    LET \* the host of an authority: the user information before the last "@" dropped
        hostOf(a) == SubSeq(a, LastIndexOf(a, "@") + 1, Len(a))
        withHost(scheme, h, path) ==
            IF \A i \in 1..Len(h) : Ch(h, i) \notin BadHostChars
            THEN [ok |-> TRUE, scheme |-> scheme, host |-> h, path |-> path]
            ELSE BadURL
        \* rest is what follows the scheme, without the query
        parseRest(scheme, rest) ==
            IF ~HasPrefix(rest, "/")
            THEN (IF scheme # "" THEN [ok |-> TRUE, scheme |-> scheme, host |-> "", path |-> ""]
                  ELSE IF viaRequest THEN BadURL
                  ELSE [ok |-> TRUE, scheme |-> "", host |-> "", path |-> rest])
            ELSE IF (scheme # "" \/ (~viaRequest /\ ~HasPrefix(rest, "///")))
                    /\ HasPrefix(rest, "//")
                 THEN withHost(scheme, hostOf(SubSeq(rest, 3, FirstOf(rest, 3, {"/"}) - 1)),
                               SubSeq(rest, FirstOf(rest, 3, {"/"}), Len(rest)))
            ELSE [ok |-> TRUE, scheme |-> scheme, host |-> "", path |-> rest]
        parseScheme(sc) ==
            IF ~sc.ok THEN BadURL
            ELSE parseRest(ToLower(sc.scheme), SubSeq(sc.rest, 1, FirstOf(sc.rest, 1, {"?"}) - 1))
    IN  IF s = "" \/ (\E i \in 1..Len(s) : Ch(s, i) \in {"\t", "\n"}) THEN BadURL
        ELSE parseScheme(getSchemeFrom(s, 1))

isAbsoluteURL(s) ==
    LET absolute(u) == u.ok /\ u.scheme # "" /\ hostnameOf(u.host) # ""
    IN  absolute(urlParse(s, TRUE))

extractDomainURL(s) ==
    LET domain(u) == IF u.ok THEN hostnameOf(u.host) ELSE ""
    IN  domain(urlParse(s, TRUE))

\* URL.String of a [scheme, host, path] URL
urlString(u) ==
    (IF u.scheme # "" THEN u.scheme \o ":" ELSE "")
    \o (IF (u.scheme # "" \/ u.host # "") /\ (u.host # "" \/ u.path # "") THEN "//" ELSE "")
    \o u.host
    \o (IF u.path # "" /\ Ch(u.path, 1) # "/" /\ u.host # "" THEN "/" ELSE "")
    \o u.path

\* URL.ResolveReference on references without dot segments
resolvePath(base, ref) ==
    LET rooted(full) == IF full = "" THEN "" ELSE "/" \o TrimPrefix(full, "/")
    IN  rooted(IF ref = "" THEN base
               ELSE IF Ch(ref, 1) # "/" THEN SubSeq(base, 1, LastIndexOf(base, "/")) \o ref
               ELSE ref)

createAbsoluteURL(url, base) ==
    LET resolve(ref) ==
            IF ~ref.ok THEN url
            ELSE IF ref.scheme # ""
                 THEN urlString([scheme |-> ref.scheme, host |-> ref.host, path |-> ref.path])
            ELSE IF ref.host # ""
                 THEN urlString([scheme |-> base.scheme, host |-> ref.host, path |-> ref.path])
            ELSE urlString([scheme |-> base.scheme, host |-> base.host,
                            path |-> resolvePath(base.path, ref.path)])
    IN  IF url = "" \/ base = NoURL \/ HasPrefix(url, "#") \/ isAbsoluteURL(url) THEN url
        ELSE resolve(urlParse(url, FALSE))

(***************************************************************************)
(* The regular expressions of the package (metadata.go, var block), each   *)
(* as the operation the code performs with it.                             *)
(***************************************************************************)
\* rxJsonSymbol.MatchString: [{\\}]
rxJsonSymbolMatch(s) == \E i \in 1..Len(s) : Ch(s, i) \in {"{", "}", "\\"}

\* rxUrlCheck.MatchString: (?i)https?://|/
rxUrlCheckMatch(s) ==
    \E i \in 1..Len(s) : MatchAtI(s, i, "http://") \/ MatchAtI(s, i, "https://") \/ MatchAt(s, i, "/")

\* the end (exclusive) of a match of (?i)https?:// at position i, 0 when none
httpEnd(s, i) ==
    IF MatchAtI(s, i, "http://") THEN i + 7
    ELSE IF MatchAtI(s, i, "https://") THEN i + 8
    ELSE 0

\* the positions where (?i)https?://[^/]+ matches: a character of the host follows the scheme
httpStarts(s) ==
    LET hostFollows(e) == e > 0 /\ e <= Len(s) /\ Ch(s, e) # "/"
    IN  {i \in 1..Len(s) : hostFollows(httpEnd(s, i))}

\* rxDomainFinder.FindStringSubmatch, match 0: (?i)https?://[^/]+  ("" when no match)
rxDomainFinderFind(s) ==
    LET at(i) == SubSeq(s, i, FirstOf(s, httpEnd(s, i), {"/"}) - 1)
        leftmost(starts) == IF starts = {} THEN "" ELSE at(MinOf(starts))
    IN  leftmost(httpStarts(s))

\* the end (exclusive) of the optional group (?:www\.|w[0-9]+\.) at position i, i when absent
RECURSIVE digitsEnd(_, _)
digitsEnd(s, i) == IF i <= Len(s) /\ IsDigitCh(Ch(s, i)) THEN digitsEnd(s, i + 1) ELSE i

wwwEnd(s, i) ==
    LET \* d is the end of the digits after the "w" at position i
        wDigits(d) == IF MatchAtI(s, i, "w") /\ d > i + 1 /\ MatchAt(s, d, ".") THEN d + 1 ELSE i
    IN  IF MatchAtI(s, i, "www.") THEN i + 4 ELSE wDigits(digitsEnd(s, i + 1))

\* rxSitenameFinder2.FindStringSubmatch, group 1:
\* (?i)https?://(?:www\.|w[0-9]+\.)?([^/]+)   ("" when no match)
rxSitenameFinder2Find(s) ==
    LET \* h is the end of the scheme, w the end of the optional prefix, e the end of the
        \* host; the optional prefix is taken only when a character is left for the group
        group(h, w, e) == IF w < e THEN SubSeq(s, w, e - 1) ELSE SubSeq(s, h, e - 1)
        from(h) == group(h, wwwEnd(s, h), FirstOf(s, h, {"/"}))
        leftmost(starts) == IF starts = {} THEN "" ELSE from(httpEnd(s, MinOf(starts)))
    IN  leftmost(httpStarts(s))

\* rxSitenameFinder1.FindStringSubmatch: (?i)^.*?[-|]\s+(.*)$
\* [matched, group 1]: the text after the first "-" or "|" that white space follows
RECURSIVE spacesEnd(_, _)
spacesEnd(s, i) == IF i <= Len(s) /\ IsSpaceCh(Ch(s, i)) THEN spacesEnd(s, i + 1) ELSE i

HasNewline(s) == \E i \in 1..Len(s) : Ch(s, i) = "\n"
NoMatch == [matched |-> FALSE, group |-> ""]

rxSitenameFinder1Find(s) ==
    LET first(seps) ==
            IF seps = {} \/ HasNewline(s) THEN NoMatch
            ELSE [matched |-> TRUE, group |-> SubSeq(s, spacesEnd(s, MinOf(seps) + 1), Len(s))]
    IN  first({i \in 1..(Len(s) - 1) : Ch(s, i) \in {"-", "|"} /\ IsSpaceCh(Ch(s, i + 1))})

\* rxTitleCleaner.FindStringSubmatch: (?i)(.+)?\s+[-|]\s+.*$
\* [matched, group 1]: the text before the last separator that white space surrounds;
\* (.+) is greedy and leaves one white space to \s+
rxTitleCleanerFind(s) ==
    LET last(seps) ==
            IF seps = {} \/ HasNewline(s) THEN NoMatch
            ELSE [matched |-> TRUE, group |-> SubSeq(s, 1, MaxOf(seps) - 2)]
    IN  last({i \in 2..(Len(s) - 1) : Ch(s, i) \in {"-", "|"} /\ IsSpaceCh(Ch(s, i - 1))
                                      /\ IsSpaceCh(Ch(s, i + 1))})

\* rxAuthorCleaner1.ReplaceAllString(s, ""): (?i)^([a-zäöüß]+(ed|t))?\s?(by|von)\s
\* (the model's alphabet is ASCII, so the class is [a-z])
\* the ends (inclusive) of a match at the start of s
authorCleaner1Ends(s) ==
    LET \* the ends of the optional word [a-z]+(ed|t) at the start of s, 0 for no word
        words == {0} \cup {k \in 2..Len(s) :
                              /\ \A j \in 1..k : IsLetterCh(Ch(s, j))
                              /\ \/ ToLowerCh(Ch(s, k)) = "t"
                                 \/ k >= 3 /\ MatchAtI(s, k - 1, "ed")}
        \* where (by|von) may start: after the word and after one optional white space
        starts(afterWord) ==
            {k + 1 : k \in afterWord}
            \cup {k + 2 : k \in {x \in afterWord : x < Len(s) /\ IsSpaceCh(Ch(s, x + 1))}}
        ends(from) ==
            {p + 2 : p \in {x \in from : MatchAtI(s, x, "by") /\ x + 2 <= Len(s)
                                         /\ IsSpaceCh(Ch(s, x + 2))}}
            \cup {p + 3 : p \in {x \in from : MatchAtI(s, x, "von") /\ x + 3 <= Len(s)
                                              /\ IsSpaceCh(Ch(s, x + 3))}}
    IN  ends(starts(words))

rxAuthorCleaner1Replace(s) ==
    LET cut(ends) == IF ends = {} THEN s ELSE SubSeq(s, MaxOf(ends) + 1, Len(s))
    IN  cut(authorCleaner1Ends(s))

\* rxAuthorCleaner2.ReplaceAllString(s, ""): (?i)\d.+?$
\* everything from the first digit that at least one character follows
rxAuthorCleaner2Replace(s) ==
    LET cut(starts) == IF starts = {} THEN s ELSE SubSeq(s, 1, MinOf(starts) - 1)
    IN  cut({i \in 1..(Len(s) - 1) : IsDigitCh(Ch(s, i))
                                     /\ \A j \in (i + 1)..Len(s) : Ch(s, j) # "\n"})

\* rxAuthorCleaner3.ReplaceAllString(s, ""): (?i)[^\w]+$|( am| on)
RECURSIVE authorCleaner3From(_, _)
authorCleaner3From(s, i) ==
    IF i > Len(s) THEN ""
    ELSE IF \A j \in i..Len(s) : ~IsWordCh(Ch(s, j)) THEN ""
    ELSE IF MatchAtI(s, i, " am") \/ MatchAtI(s, i, " on") THEN authorCleaner3From(s, i + 3)
    ELSE Ch(s, i) \o authorCleaner3From(s, i + 1)

rxAuthorCleaner3Replace(s) == authorCleaner3From(s, 1)

\* rxCommaSeparator.Split(s, -1): \s*[,;]\s*
\* the start of the leftmost match at or after i, 0 when none
RECURSIVE commaMatchStart(_, _)
commaMatchStart(s, i) ==
    LET \* e is the end of the white space at i
        commaAt(e) == e <= Len(s) /\ Ch(s, e) \in {",", ";"}
    IN  IF i > Len(s) THEN 0
        ELSE IF commaAt(spacesEnd(s, i)) THEN i
        ELSE commaMatchStart(s, i + 1)

RECURSIVE commaSplitFrom(_, _)
commaSplitFrom(s, beg) ==
    LET \* m is the start of the next separator
        splitAt(m) ==
            IF m = 0 THEN <<SubSeq(s, beg, Len(s))>>
            ELSE <<SubSeq(s, beg, m - 1)>> \o commaSplitFrom(s, spacesEnd(s, spacesEnd(s, m) + 1))
    IN  splitAt(commaMatchStart(s, beg))

rxCommaSeparatorSplit(s) == commaSplitFrom(s, 1)

\* rxNameJson.FindStringSubmatch, group 1: (?i)"name?\\?": ?\\?"([^"\\]+)
\* the position after an optional character at p
optAt(s, p, c) == IF MatchAt(s, p, c) THEN p + 1 ELSE p
optAtI(s, p, c) == IF MatchAtI(s, p, c) THEN p + 1 ELSE p

\* the start and end of group 1 for a match of the expression at position i, <<0, 0>> when none
nameJsonGroupAt(s, i) ==
    LET \* g is the start and e the end (exclusive) of group 1: one character at least
        group(ok, g, e) == IF ok /\ e > g THEN <<g, e - 1>> ELSE <<0, 0>>
        \* p3 is the closing quote of the key, p6 the opening quote of the value
        quotes(p3, p6) ==
            group(MatchAtI(s, i, "\"nam") /\ MatchAt(s, p3, "\":") /\ MatchAt(s, p6, "\""),
                  p6 + 1, FirstOf(s, p6 + 1, {"\"", "\\"}))
        key(p3) == quotes(p3, optAt(s, optAt(s, p3 + 2, " "), "\\"))
    IN  key(optAt(s, optAtI(s, i + 4, "e"), "\\"))

rxNameJsonFind(s) ==
    LET sub(g) == [matched |-> TRUE, group |-> SubSeq(s, g[1], g[2])]
        leftmost(starts) ==
            IF starts = {} THEN NoMatch ELSE sub(nameJsonGroupAt(s, MinOf(starts)))
    IN  leftmost({i \in 1..Len(s) : nameJsonGroupAt(s, i)[1] > 0})

(***************************************************************************)
(* metadata.go: the meta-name key sets and the Metadata record.            *)
(***************************************************************************)
metaNameAuthor == {"author", "byl", "dc.creator", "dcterms.creator", "sailthru.author"}
metaNameTitle == {"title", "dc.title", "dcterms.title", "fb_title", "sailthru.title", "twitter:title"}
metaNameDescription ==
    {"description", "dc.description", "dcterms.description", "dc:description",
     "sailthru.description", "twitter:description"}
metaNamePublisher == {"copyright", "dc.publisher", "dcterms.publisher", "publisher"}

\* the zero value of Metadata
EmptyMetadata ==
    [Title |-> "", Author |-> "", URL |-> "", Hostname |-> "", Description |-> "",
     Sitename |-> "", Date |-> "", Categories |-> <<>>, Tags |-> <<>>]

(***************************************************************************)
(* validateMetadataAuthor and cleanCatTags.                                *)
(***************************************************************************)
validateMetadataAuthor(author) ==
    IF author = "" THEN author
    ELSE IF ~Contains(author, " ") \/ HasPrefix(author, "http") THEN ""
    ELSE IF rxJsonSymbolMatch(author) THEN ""
    ELSE author

\* an entry is kept when it is not empty
cleanItem(entry) == IF entry # "" THEN <<entry>> ELSE <<>>

\* the non-empty normalized items of a sequence of raw pieces
RECURSIVE cleanItems(_)
cleanItems(items) ==
    IF Len(items) = 0 THEN <<>>
    ELSE cleanItem(strNormalize(items[1])) \o cleanItems(Tail(items))

\* a cleaning that returns the entries as they are
cleanCatTagsAsIs(catTags) == catTags

RECURSIVE cleanCatTags(_)
cleanCatTags(catTags) ==
    IF Len(catTags) = 0 THEN <<>>
    ELSE cleanItems(rxCommaSeparatorSplit(catTags[1])) \o cleanCatTags(Tail(catTags))

(***************************************************************************)
(* The document.  A document is a record of what the selectors read:       *)
(*   metas       the <meta> elements in document order, each with its raw  *)
(*               property, name, itemprop and content attributes (""       *)
(*               when missing) and whether it is inside <head>;            *)
(*   scripts     the <script> elements: the type attribute and the text,   *)
(*               which is empty, not JSON, or a JSON value;                *)
(*   headTitle   the text of head > title (at most one);                   *)
(*   h1, h2      the texts of the <h1> and <h2> elements;                  *)
(*   titleNodes, authorNodes   the texts of the nodes matched by           *)
(*               metaTitleSelectors / metaAuthorSelectors, in the order    *)
(*               the selector tables find them;                            *)
(*   canonical   the href of head link[rel=canonical] (at most one);       *)
(*   alternates  hreflang and href of every head link[rel=alternate];      *)
(*   categoryNodes, tagNodes   per selector of metaCategoriesSelectors /   *)
(*               metaTagsSelectors, href and text of the matched nodes.    *)
(* A JSON value is [t, v]: a string "s", an object "o" (a function from    *)
(* its keys), an array "a", or any other value "x".                        *)
(***************************************************************************)
JStr(s) == [t |-> "s", v |-> s]
JObj(f) == [t |-> "o", v |-> f]
JArr(q) == [t |-> "a", v |-> q]
JOther == [t |-> "x", v |-> 0]
\* script texts that are no JSON value
EmptyText == [t |-> "empty", v |-> 0]
BadText == [t |-> "bad", v |-> 0]

Meta(property, name, itemprop, content) ==
    [property |-> property, name |-> name, itemprop |-> itemprop, content |-> content,
     head |-> TRUE]

EmptyDoc ==
    [metas |-> <<>>, scripts |-> <<>>, headTitle |-> <<>>, h1 |-> <<>>, h2 |-> <<>>,
     titleNodes |-> <<>>, authorNodes |-> <<>>, canonical |-> <<>>, alternates |-> <<>>,
     categoryNodes |-> <<>>, tagNodes |-> <<>>]

\* the elements of a sequence that satisfy a test, in order
RECURSIVE SelectMetas(_, _)
SelectMetas(ms, ogOnly) ==
    IF Len(ms) = 0 THEN <<>>
    ELSE (IF ~ogOnly \/ HasPrefix(ms[1].property, "og:") THEN <<ms[1]>> ELSE <<>>)
         \o SelectMetas(Tail(ms), ogOnly)

(***************************************************************************)
(* extractOpenGraphMeta                                                    *)
(***************************************************************************)
\* a switch on propName without the case "og:title"
openGraphNodeNoTitle(metadata, node) ==
    LET switch(propName, content) ==
            IF content = "" THEN metadata
            ELSE IF propName = "og:site_name" THEN [metadata EXCEPT !.Sitename = content]
            ELSE IF propName = "og:description" THEN [metadata EXCEPT !.Description = content]
            ELSE IF propName \in {"og:author", "og:article:author"}
                 THEN [metadata EXCEPT !.Author = content]
            ELSE IF propName = "og:url"
                 THEN (IF isAbsoluteURL(content) THEN [metadata EXCEPT !.URL = content]
                       ELSE metadata)
            ELSE metadata
    IN  switch(strNormalize(node.property), strNormalize(node.content))

\* the switch on propName for one node
openGraphNode(metadata, node) ==
    LET switch(propName, content) ==
            IF content = "" THEN metadata
            ELSE IF propName = "og:site_name" THEN [metadata EXCEPT !.Sitename = content]
            ELSE IF propName = "og:title" THEN [metadata EXCEPT !.Title = content]
            ELSE IF propName = "og:description" THEN [metadata EXCEPT !.Description = content]
            ELSE IF propName \in {"og:author", "og:article:author"}
                 THEN [metadata EXCEPT !.Author = content]
            ELSE IF propName = "og:url"
                 THEN (IF isAbsoluteURL(content) THEN [metadata EXCEPT !.URL = content]
                       ELSE metadata)
            ELSE metadata
    IN  switch(strNormalize(node.property), strNormalize(node.content))

RECURSIVE openGraphNodes(_, _)
openGraphNodes(metadata, nodes) ==
    IF Len(nodes) = 0 THEN metadata
    ELSE openGraphNodes(openGraphNode(metadata, nodes[1]), Tail(nodes))

extractOpenGraphMeta(doc) == openGraphNodes(EmptyMetadata, SelectMetas(doc.metas, TRUE))

(***************************************************************************)
(* processMetaTags                                                         *)
(***************************************************************************)
\* a loop body in which an element falls through to its next attribute when the
\* branch of an attribute does not know its value
metaTagNodeFallThrough(st, node) ==
    LET switch(content, property, name, itemprop) ==
            IF content = "" THEN st
            ELSE IF property # "" /\ (HasPrefix(property, "og:")
                                      \/ strIn(property, {"article:tag", "author", "article:author"}))
                 THEN (IF HasPrefix(property, "og:") THEN st
                       ELSE IF property = "article:tag"
                            THEN [st EXCEPT !.metadata.Tags = Append(st.metadata.Tags, content)]
                       ELSE IF strIn(property, {"author", "article:author"})
                            THEN [st EXCEPT !.metadata.Author = strOr(st.metadata.Author, content)]
                       ELSE st)
            ELSE IF name # "" /\ (strIn(name, metaNameAuthor \cup metaNameTitle
                                                \cup metaNameDescription \cup metaNamePublisher
                                                \cup {"twitter:site", "application-name",
                                                      "twitter:url", "keywords"})
                                  \/ Contains(name, "twitter:app:name"))
                 THEN (IF strIn(name, metaNameAuthor)
                       THEN [st EXCEPT !.metadata.Author = strOr(st.metadata.Author, content)]
                       ELSE IF strIn(name, metaNameTitle)
                            THEN [st EXCEPT !.metadata.Title = strOr(st.metadata.Title, content)]
                       ELSE IF strIn(name, metaNameDescription)
                            THEN [st EXCEPT !.metadata.Description =
                                      strOr(st.metadata.Description, content)]
                       ELSE IF strIn(name, metaNamePublisher)
                            THEN [st EXCEPT !.metadata.Sitename =
                                      strOr(st.metadata.Sitename, content)]
                       ELSE IF strIn(name, {"twitter:site", "application-name"})
                               \/ Contains(name, "twitter:app:name")
                            THEN [st EXCEPT !.tmpSitename = content]
                       ELSE IF name = "twitter:url"
                            THEN (IF st.metadata.URL = "" /\ isAbsoluteURL(content)
                                  THEN [st EXCEPT !.metadata.URL = content]
                                  ELSE st)
                       ELSE IF name = "keywords"
                            THEN [st EXCEPT !.metadata.Tags = Append(st.metadata.Tags, content)]
                       ELSE st)
            ELSE IF itemprop # ""
                 THEN (IF itemprop = "author"
                       THEN [st EXCEPT !.metadata.Author = strOr(st.metadata.Author, content)]
                       ELSE IF itemprop = "description"
                            THEN [st EXCEPT !.metadata.Description =
                                      strOr(st.metadata.Description, content)]
                       ELSE IF itemprop = "headline"
                            THEN [st EXCEPT !.metadata.Title = strOr(st.metadata.Title, content)]
                       ELSE st)
            ELSE st
    IN  switch(strNormalize(node.content), strNormalize(node.property),
               strNormalize(ToLower(node.name)), strNormalize(node.itemprop))

\* a loop body in which every author candidate replaces the author found before
metaTagNodeLastAuthor(st, node) ==
    LET switch(content, property, name, itemprop) ==
            IF content = "" THEN st
            ELSE IF property # ""
                 THEN (IF HasPrefix(property, "og:") THEN st
                       ELSE IF property = "article:tag"
                            THEN [st EXCEPT !.metadata.Tags = Append(st.metadata.Tags, content)]
                       ELSE IF strIn(property, {"author", "article:author"})
                            THEN [st EXCEPT !.metadata.Author = content]
                       ELSE st)
            ELSE IF name # ""
                 THEN (IF strIn(name, metaNameAuthor)
                       THEN [st EXCEPT !.metadata.Author = content]
                       ELSE IF strIn(name, metaNameTitle)
                            THEN [st EXCEPT !.metadata.Title = strOr(st.metadata.Title, content)]
                       ELSE IF strIn(name, metaNameDescription)
                            THEN [st EXCEPT !.metadata.Description =
                                      strOr(st.metadata.Description, content)]
                       ELSE IF strIn(name, metaNamePublisher)
                            THEN [st EXCEPT !.metadata.Sitename =
                                      strOr(st.metadata.Sitename, content)]
                       ELSE IF strIn(name, {"twitter:site", "application-name"})
                               \/ Contains(name, "twitter:app:name")
                            THEN [st EXCEPT !.tmpSitename = content]
                       ELSE IF name = "twitter:url"
                            THEN (IF st.metadata.URL = "" /\ isAbsoluteURL(content)
                                  THEN [st EXCEPT !.metadata.URL = content]
                                  ELSE st)
                       ELSE IF name = "keywords"
                            THEN [st EXCEPT !.metadata.Tags = Append(st.metadata.Tags, content)]
                       ELSE st)
            ELSE IF itemprop # ""
                 THEN (IF itemprop = "author"
                       THEN [st EXCEPT !.metadata.Author = content]
                       ELSE IF itemprop = "description"
                            THEN [st EXCEPT !.metadata.Description =
                                      strOr(st.metadata.Description, content)]
                       ELSE IF itemprop = "headline"
                            THEN [st EXCEPT !.metadata.Title = strOr(st.metadata.Title, content)]
                       ELSE st)
            ELSE st
    IN  switch(strNormalize(node.content), strNormalize(node.property),
               strNormalize(ToLower(node.name)), strNormalize(node.itemprop))

\* the body of the loop over meta[content] for one node; st is [metadata, tmpSitename]
metaTagNode(st, node) ==
    LET switch(content, property, name, itemprop) ==
            IF content = "" THEN st
            ELSE IF property # ""
                 THEN (IF HasPrefix(property, "og:") THEN st
                       ELSE IF property = "article:tag"
                            THEN [st EXCEPT !.metadata.Tags = Append(st.metadata.Tags, content)]
                       ELSE IF strIn(property, {"author", "article:author"})
                            THEN [st EXCEPT !.metadata.Author = strOr(st.metadata.Author, content)]
                       ELSE st)
            ELSE IF name # ""
                 THEN (IF strIn(name, metaNameAuthor)
                       THEN [st EXCEPT !.metadata.Author = strOr(st.metadata.Author, content)]
                       ELSE IF strIn(name, metaNameTitle)
                            THEN [st EXCEPT !.metadata.Title = strOr(st.metadata.Title, content)]
                       ELSE IF strIn(name, metaNameDescription)
                            THEN [st EXCEPT !.metadata.Description =
                                      strOr(st.metadata.Description, content)]
                       ELSE IF strIn(name, metaNamePublisher)
                            THEN [st EXCEPT !.metadata.Sitename =
                                      strOr(st.metadata.Sitename, content)]
                       ELSE IF strIn(name, {"twitter:site", "application-name"})
                               \/ Contains(name, "twitter:app:name")
                            THEN [st EXCEPT !.tmpSitename = content]
                       ELSE IF name = "twitter:url"
                            THEN (IF st.metadata.URL = "" /\ isAbsoluteURL(content)
                                  THEN [st EXCEPT !.metadata.URL = content]
                                  ELSE st)
                       ELSE IF name = "keywords"
                            THEN [st EXCEPT !.metadata.Tags = Append(st.metadata.Tags, content)]
                       ELSE st)
            ELSE IF itemprop # ""
                 THEN (IF itemprop = "author"
                       THEN [st EXCEPT !.metadata.Author = strOr(st.metadata.Author, content)]
                       ELSE IF itemprop = "description"
                            THEN [st EXCEPT !.metadata.Description =
                                      strOr(st.metadata.Description, content)]
                       ELSE IF itemprop = "headline"
                            THEN [st EXCEPT !.metadata.Title = strOr(st.metadata.Title, content)]
                       ELSE st)
            ELSE st
    IN  switch(strNormalize(node.content), strNormalize(node.property),
               strNormalize(ToLower(node.name)), strNormalize(node.itemprop))

\* a loop that visits the nodes from the last to the first
RECURSIVE metaTagNodesBackwards(_, _)
metaTagNodesBackwards(st, nodes) ==
    IF Len(nodes) = 0 THEN st
    ELSE metaTagNode(metaTagNodesBackwards(st, Tail(nodes)), nodes[1])

RECURSIVE metaTagNodes(_, _)
metaTagNodes(st, nodes) ==
    IF Len(nodes) = 0 THEN st
    ELSE metaTagNodes(metaTagNode(st, nodes[1]), Tail(nodes))

\* "If all OpenGraph metadata have been assigned, we can return it"
openGraphComplete(metadata) ==
    metadata.Title # "" /\ metadata.Author # "" /\ metadata.URL # ""
    /\ metadata.Description # "" /\ metadata.Sitename # ""

processMetaTags(doc) ==
    LET \* "Use temporary site name if necessary"
        useTmpSitename(st) ==
            IF st.metadata.Sitename = "" /\ st.tmpSitename # ""
            THEN [st.metadata EXCEPT !.Sitename = st.tmpSitename]
            ELSE st.metadata
        \* "Clean up author"
        cleanUpAuthor(metadata) ==
            [metadata EXCEPT !.Author = validateMetadataAuthor(metadata.Author)]
        \* og is the record of extractOpenGraphMeta
        scan(og) ==
            IF openGraphComplete(og) THEN og
            ELSE cleanUpAuthor(useTmpSitename(metaTagNodes([metadata |-> og, tmpSitename |-> ""],
                                                           SelectMetas(doc.metas, FALSE))))
    IN  scan(extractOpenGraphMeta(doc))

(***************************************************************************)
(* extractJsonLd.  Go iterates a map in an unspecified order, so the two   *)
(* loops over a JSON object ("for _, value := range obj" and "for key,     *)
(* value := range article") are modelled by every order: the operators     *)
(* below return the set of results the code can produce.                   *)
(***************************************************************************)
extractJsonString(iface) == IF iface.t = "s" THEN strNormalize(iface.v) ELSE ""

\* the names of the entries of an array
RECURSIVE jsonArrayNames(_)
jsonArrayNames(entries) ==
    LET name(entry) ==
            IF entry.t = "s" THEN <<strNormalize(entry.v)>>
            ELSE IF entry.t = "o" /\ "name" \in DOMAIN entry.v
                 THEN cleanItem(extractJsonString(entry.v["name"]))
            ELSE <<>>
    IN  IF Len(entries) = 0 THEN <<>>
        ELSE name(entries[1]) \o jsonArrayNames(Tail(entries))

\* allowedTypes is the set of the variadic arguments
extractJsonThingName(iface, allowedTypes) ==
    LET \* the name in a string that holds unescaped JSON
        matched(matches) == IF ~matches.matched THEN "" ELSE strNormalize(matches.group)
        \* "If it's array, merge names into one"
        merged(names) == IF Len(names) > 0 THEN Join(names, "; ") ELSE ""
    IN  IF iface.t = "s"
        THEN (IF rxJsonSymbolMatch(iface.v) THEN matched(rxNameJsonFind(iface.v))
              ELSE strNormalize(iface.v))
        ELSE IF iface.t = "o"
             THEN (IF allowedTypes # {} /\ "@type" \in DOMAIN iface.v /\ iface.v["@type"].t = "s"
                      /\ ~strIn(iface.v["@type"].v, allowedTypes)
                   THEN ""
                   ELSE IF "name" \in DOMAIN iface.v THEN extractJsonString(iface.v["name"])
                   ELSE "")
        ELSE IF iface.t = "a" THEN merged(jsonArrayNames(iface.v))
        ELSE ""

\* article is the function of a JSON object
extractJsonArticleThingName(article, key, allowedTypes) ==
    IF key \notin DOMAIN article THEN ""
    ELSE extractJsonThingName(article[key], allowedTypes)

isArticleType(strObjType) ==
    Contains(strObjType, "Article") \/ strObjType = "SocialMediaPosting" \/ strObjType = "Report"

\* what one traversal appends: the articles and the persons, in visiting order
NoObjects == [articles |-> <<>>, persons |-> <<>>]
joinObjects(x, y) == [articles |-> x.articles \o y.articles, persons |-> x.persons \o y.persons]

\* findImportantObjects(obj): the set of [articles, persons] over every iteration order
RECURSIVE findImportantObjects(_)
RECURSIVE findInKeys(_, _)
RECURSIVE findInItems(_)
findInValue(value) ==
    IF value.t = "o" THEN findImportantObjects(value.v)
    ELSE IF value.t = "a" THEN findInItems(value.v)
    ELSE {NoObjects}

findInItems(items) ==
    IF Len(items) = 0 THEN {NoObjects}
    ELSE {joinObjects(x, y) :
            x \in (IF items[1].t = "o" THEN findImportantObjects(items[1].v) ELSE {NoObjects}),
            y \in findInItems(Tail(items))}

findInKeys(obj, keys) ==
    IF keys = {} THEN {NoObjects}
    ELSE UNION {{joinObjects(x, y) : x \in findInValue(obj[k]), y \in findInKeys(obj, keys \ {k})} :
                k \in keys}

findImportantObjects(obj) ==
    IF "@type" \in DOMAIN obj /\ obj["@type"].t = "s" /\ isArticleType(obj["@type"].v)
    THEN {[articles |-> <<obj>>, persons |-> <<>>]}
    ELSE IF "@type" \in DOMAIN obj /\ obj["@type"].t = "s" /\ obj["@type"].v = "Person"
         THEN {[articles |-> <<>>, persons |-> <<obj>>]}
    ELSE findInKeys(obj, DOMAIN obj)

\* the number of activations of findImportantObjects that are on the call stack at
\* the deepest point of the traversal of obj: the function calls itself for every
\* value that is an object and for every entry of an array that is an object,
\* without any test of the depth
RECURSIVE findImportantObjectsDepth(_)
findImportantObjectsDepth(obj) ==
    LET entries(value) ==
            IF value.t = "o" THEN {value.v}
            ELSE IF value.t = "a"
                 THEN {value.v[i].v : i \in {j \in 1..Len(value.v) : value.v[j].t = "o"}}
            ELSE {}
        deepest(depths) == IF depths = {} THEN 0 ELSE MaxOf(depths)
    IN  IF "@type" \in DOMAIN obj /\ obj["@type"].t = "s"
           /\ (isArticleType(obj["@type"].v) \/ obj["@type"].v = "Person")
        THEN 1
        ELSE 1 + deepest({findImportantObjectsDepth(child) :
                            child \in UNION {entries(obj[k]) : k \in DOMAIN obj}})

\* the titles the headline loop can end with: the loop stops at the first key,
\* in iteration order, that contains "headline" and holds a usable string
headlineTitles(article) ==
    LET usable(title) == title # "" /\ ~Contains(title, "...")
    IN  {extractJsonString(article[key]) :
            key \in {k \in DOMAIN article :
                        /\ Contains(ToLower(k), "headline")
                        /\ usable(extractJsonString(article[k]))}}

\* the body of "for _, article := range articles": the set of scratch records after it
jsonLdArticle(metadata, article) ==
    LET author(m) ==
            IF m.Author = ""
            THEN [m EXCEPT !.Author =
                      validateMetadataAuthor(extractJsonArticleThingName(article, "author",
                                                                         {"Person"}))]
            ELSE m
        publisher(m) ==
            IF m.Sitename = ""
            THEN [m EXCEPT !.Sitename = extractJsonArticleThingName(article, "publisher", {})]
            ELSE m
        section(m) ==
            IF Len(m.Categories) = 0 /\ "articleSection" \in DOMAIN article
            THEN [m EXCEPT !.Categories =
                      Append(m.Categories, extractJsonString(article["articleSection"]))]
            ELSE m
        name(m) ==
            IF m.Title = "" /\ "name" \in DOMAIN article
            THEN [m EXCEPT !.Title = extractJsonString(article["name"])]
            ELSE m
        \* "If title is empty or only consist of one word, try to look in headline"
        headline(m, titles) ==
            IF (m.Title = "" \/ strWordCount(m.Title) = 1) /\ titles # {}
            THEN {[m EXCEPT !.Title = title] : title \in titles}
            ELSE {m}
    IN  headline(name(section(publisher(author(metadata)))), headlineTitles(article))

RECURSIVE jsonLdArticles(_, _)
jsonLdArticles(metadata, articles) ==
    IF Len(articles) = 0 THEN {metadata}
    ELSE UNION {jsonLdArticles(m, Tail(articles)) : m \in jsonLdArticle(metadata, articles[1])}

\* the validated names of the persons
RECURSIVE personNames(_)
personNames(persons) ==
    IF Len(persons) = 0 THEN <<>>
    ELSE cleanItem(validateMetadataAuthor(extractJsonThingName(JObj(persons[1]), {})))
         \o personNames(Tail(persons))

\* a fallback in which the persons replace the author of the articles
jsonLdPersonsAlways(metadata, persons) ==
    LET joined(names) ==
            IF Len(names) > 0 THEN [metadata EXCEPT !.Author = Join(names, "; ")] ELSE metadata
    IN  joined(personNames(persons))

\* "If author not found, look in persons"
jsonLdPersons(metadata, persons) ==
    LET joined(names) ==
            IF Len(names) > 0 THEN [metadata EXCEPT !.Author = Join(names, "; ")] ELSE metadata
    IN  IF metadata.Author = "" THEN joined(personNames(persons)) ELSE metadata

\* the scratch records after one script whose text decoded into the object data
jsonLdScript(metadata, data) ==
    UNION {{jsonLdPersons(m, found.persons) : m \in jsonLdArticles(metadata, found.articles)} :
           found \in findImportantObjects(data)}

\* "Stop if all metadata found"
jsonLdComplete(metadata) ==
    metadata.Author # "" /\ metadata.Sitename # "" /\ Len(metadata.Categories) # 0
    /\ metadata.Title # ""

\* a loop over the script nodes that ends at the first script that is no JSON object
RECURSIVE jsonLdScriptsStop(_, _)
jsonLdScriptsStop(metadata, scriptNodes) ==
    IF Len(scriptNodes) = 0 THEN {metadata}
    ELSE IF scriptNodes[1].text.t # "o" THEN {metadata}
    ELSE UNION {IF jsonLdComplete(m) THEN {m} ELSE jsonLdScriptsStop(m, Tail(scriptNodes)) :
                m \in jsonLdScript(metadata, scriptNodes[1].text.v)}

\* the loop over the script nodes: the set of scratch records after it
RECURSIVE jsonLdScripts(_, _)
jsonLdScripts(metadata, scriptNodes) ==
    IF Len(scriptNodes) = 0 THEN {metadata}
    ELSE IF scriptNodes[1].text.t # "o" THEN jsonLdScripts(metadata, Tail(scriptNodes))
    ELSE UNION {IF jsonLdComplete(m) THEN {m} ELSE jsonLdScripts(m, Tail(scriptNodes)) :
                m \in jsonLdScript(metadata, scriptNodes[1].text.v)}

RECURSIVE SelectScripts(_, _)
SelectScripts(scripts, type) ==
    IF Len(scripts) = 0 THEN <<>>
    ELSE (IF scripts[1].type = type THEN <<scripts[1]>> ELSE <<>>) \o SelectScripts(Tail(scripts), type)

\* an override in which the author of the meta tags wins
mergeAuthorKeep(originalMetadata, metadata) ==
    [originalMetadata EXCEPT !.Author = strOr(originalMetadata.Author, metadata.Author)]

\* the override of the original metadata by the scratch record
mergeAuthor(originalMetadata, metadata) ==
    [originalMetadata EXCEPT !.Author = strOr(metadata.Author, originalMetadata.Author)]

\* the number of bytes of the UTF-8 encoding of s, for the characters of the inputs
RECURSIVE Utf8Len(_)
Utf8Len(s) ==
    IF s = "" THEN 0
    ELSE (IF IsWordCh(Ch(s, 1)) \/ Ch(s, 1) \in {" ", ".", "-", "@", "'"} THEN 1 ELSE 2)
         + Utf8Len(SubSeq(s, 2, Len(s)))

\* a merge that compares the site names by their bytes
jsonLdMergeBytes(originalMetadata, metadata) ==
    LET categories(o) ==
            IF Len(metadata.Categories) > 0 THEN [o EXCEPT !.Categories = metadata.Categories]
            ELSE o
        sitename(o) ==
            IF Utf8Len(metadata.Sitename) > Utf8Len(o.Sitename)
            THEN [o EXCEPT !.Sitename = metadata.Sitename]
            ELSE o
        title(o) == IF o.Title = "" THEN [o EXCEPT !.Title = metadata.Title] ELSE o
    IN  title(sitename(categories(mergeAuthor(originalMetadata, metadata))))

\* an override in which the title of JSON-LD replaces the title of the meta tags
jsonLdMergeTitle(originalMetadata, metadata) ==
    LET categories(o) ==
            IF Len(metadata.Categories) > 0 THEN [o EXCEPT !.Categories = metadata.Categories]
            ELSE o
        sitename(o) ==
            IF Len(metadata.Sitename) > Len(o.Sitename)
            THEN [o EXCEPT !.Sitename = metadata.Sitename]
            ELSE o
        title(o) == IF metadata.Title # "" THEN [o EXCEPT !.Title = metadata.Title] ELSE o
    IN  title(sitename(categories(mergeAuthor(originalMetadata, metadata))))

jsonLdMerge(originalMetadata, metadata) ==
    LET categories(o) ==
            IF Len(metadata.Categories) > 0 THEN [o EXCEPT !.Categories = metadata.Categories]
            ELSE o
        sitename(o) ==
            IF Len(metadata.Sitename) > Len(o.Sitename)
            THEN [o EXCEPT !.Sitename = metadata.Sitename]
            ELSE o
        title(o) == IF o.Title = "" THEN [o EXCEPT !.Title = metadata.Title] ELSE o
    IN  title(sitename(categories(mergeAuthor(originalMetadata, metadata))))

\* extractJsonLd(doc, originalMetadata): the set of records the code can return
extractJsonLd(doc, originalMetadata) ==
    {jsonLdMerge(originalMetadata, m) :
        m \in jsonLdScripts(EmptyMetadata,
                            SelectScripts(doc.scripts, "application/ld+json")
                            \o SelectScripts(doc.scripts, "application/settings+json"))}

(***************************************************************************)
(* The DOM heuristics.                                                     *)
(***************************************************************************)
\* the rune limits extractDomTitle and extractDomAuthor pass
TitleRuneLimit == 200
AuthorRuneLimit == 75

\* extractDomMetaSelectors; texts are the texts of the nodes the selectors match
RECURSIVE extractDomMetaSelectors(_, _)
extractDomMetaSelectors(texts, limit) ==
    LET first(text) ==
            IF text # "" /\ Len(text) < limit THEN text
            ELSE extractDomMetaSelectors(Tail(texts), limit)
    IN  IF Len(texts) = 0 THEN "" ELSE first(strNormalize(texts[1]))

extractDomTitle(doc) ==
    LET \* the title of the <title> tag: group 1 of rxTitleCleaner when it matches
        cleaned(title, matches) == IF matches.matched THEN matches.group ELSE title
        headTitle(title) == cleaned(title, rxTitleCleanerFind(title))
        \* title is what the selectors returned
        afterSelectors(title) ==
            IF title # "" THEN title
            ELSE IF Len(doc.headTitle) > 0 THEN headTitle(strNormalize(doc.headTitle[1]))
            ELSE IF Len(doc.h1) > 0 THEN TrimSpace(doc.h1[1])
            ELSE IF Len(doc.h2) > 0 THEN TrimSpace(doc.h2[1])
            ELSE ""
    IN  IF Len(doc.h1) = 1 THEN strNormalize(doc.h1[1])
        ELSE afterSelectors(extractDomMetaSelectors(doc.titleNodes, TitleRuneLimit))

extractDomAuthor(doc) ==
    LET cleaned(author) ==
            IF author # ""
            THEN Title(rxAuthorCleaner3Replace(rxAuthorCleaner2Replace(
                           rxAuthorCleaner1Replace(author))))
            ELSE ""
    IN  cleaned(extractDomMetaSelectors(doc.authorNodes, AuthorRuneLimit))

\* a normalized href that may replace url
usableHref(url, href) == IF href # "" /\ rxUrlCheckMatch(href) THEN href ELSE url

\* the href the loop over head link[rel=alternate] leaves in url: the last usable x-default
RECURSIVE alternateURL(_, _)
alternateURL(url, linkNodes) ==
    IF Len(linkNodes) = 0 THEN url
    ELSE alternateURL(IF linkNodes[1].hreflang = "x-default"
                      THEN usableHref(url, strNormalize(linkNodes[1].href)) ELSE url,
                      Tail(linkNodes))

\* "Add domain name if it's missing": the loop over head meta[content]
RECURSIVE addDomain(_, _)
addDomain(url, nodes) ==
    LET domainAttr(attrType) ==
            attrType # "" /\ (HasPrefix(attrType, "og:") \/ HasPrefix(attrType, "twitter:"))
        found(domain) == IF domain # "" THEN domain \o url ELSE addDomain(url, Tail(nodes))
    IN  IF Len(nodes) = 0 THEN url
        ELSE IF nodes[1].head
                /\ domainAttr(strOr(strNormalize(nodes[1].name), strNormalize(nodes[1].property)))
             THEN found(rxDomainFinderFind(strNormalize(nodes[1].content)))
        ELSE addDomain(url, Tail(nodes))

\* a default URL string that renders the missing default URL as the root path
defaultURLStringRoot(defaultURL) == IF defaultURL # NoURL THEN urlString(defaultURL) ELSE "/"

\* "At this point, URL is either empty or not absolute, so just return the default URL"
defaultURLString(defaultURL) == IF defaultURL # NoURL THEN urlString(defaultURL) ELSE ""

\* a validation that trusts any non-empty url
validateURLUnchecked(url, defaultURL) ==
    IF url = "" THEN defaultURLString(defaultURL) ELSE url

\* "Validate URL"
validateURL(url, defaultURL) ==
    LET resolved(newURL) ==
            IF isAbsoluteURL(newURL) THEN newURL ELSE defaultURLString(defaultURL)
    IN  IF url = "" THEN defaultURLString(defaultURL)
        ELSE IF isAbsoluteURL(url) THEN url
        ELSE resolved(createAbsoluteURL(url, defaultURL))

extractDomURL(doc, defaultURL) ==
    LET \* the canonical link first, else the default language link
        linkURL ==
            IF Len(doc.canonical) > 0 THEN usableHref("", strNormalize(doc.canonical[1]))
            ELSE alternateURL("", doc.alternates)
        withDomain(url) ==
            IF url # "" /\ HasPrefix(url, "/") THEN addDomain(url, doc.metas) ELSE url
    IN  validateURL(withDomain(linkURL), defaultURL)

extractDomSitename(doc) ==
    LET tail(titleText, matches) ==
            IF titleText = "" THEN ""
            ELSE IF matches.matched THEN matches.group
            ELSE ""
        ofTitle(titleText) == tail(titleText, rxSitenameFinder1Find(titleText))
    IN  IF Len(doc.headTitle) = 0 THEN "" ELSE ofTitle(strNormalize(doc.headTitle[1]))

\* the texts of the nodes of one selector whose href contains part
RECURSIVE linkTexts(_, _)
linkTexts(nodes, part) ==
    LET linkText(href, text) == IF href # "" /\ Contains(href, part) THEN cleanItem(text) ELSE <<>>
    IN  IF Len(nodes) = 0 THEN <<>>
        ELSE linkText(TrimSpace(nodes[1].href), strNormalize(nodes[1].text))
             \o linkTexts(Tail(nodes), part)

\* the loop over the selectors: the links of the first selector that yields any
RECURSIVE selectorLinks(_, _)
selectorLinks(groups, part) ==
    LET found(links) == IF Len(links) > 0 THEN links ELSE selectorLinks(Tail(groups), part)
    IN  IF Len(groups) = 0 THEN <<>> ELSE found(linkTexts(groups[1], part))

\* head meta[property="article:section"], the first one
RECURSIVE articleSectionNode(_)
articleSectionNode(nodes) ==
    IF Len(nodes) = 0 THEN <<>>
    ELSE IF nodes[1].head /\ nodes[1].property = "article:section" THEN <<nodes[1]>>
    ELSE articleSectionNode(Tail(nodes))

extractDomCategories(doc) ==
    LET \* "Fallback": node is the article:section node, if any
        content(node) == IF Len(node) > 0 THEN cleanItem(strNormalize(node[1].content)) ELSE <<>>
        fallback(categories) ==
            IF Len(categories) = 0 THEN content(articleSectionNode(doc.metas)) ELSE categories
    IN  fallback(selectorLinks(doc.categoryNodes, "/category/"))

extractDomTags(doc) == selectorLinks(doc.tagNodes, "/tags/")

(***************************************************************************)
(* extractMetadata, statement by statement.                                *)
(***************************************************************************)
\* a host name that keeps the port of the URL
hostnameWithPort(metadata) ==
    IF metadata.URL # "" THEN [metadata EXCEPT !.Hostname = urlParse(metadata.URL, TRUE).host]
    ELSE metadata

hostnameStep(metadata) ==
    IF metadata.URL # "" THEN [metadata EXCEPT !.Hostname = extractDomainURL(metadata.URL)]
    ELSE metadata

\* "Sitename": the DOM fallback, the Twitter ID, the capitalisation, the domain of the URL
sitenameStep(doc, metadata) ==
    LET fallback(m) ==
            IF m.Sitename = "" THEN [m EXCEPT !.Sitename = extractDomSitename(doc)] ELSE m
        \* group is group 1 of rxSitenameFinder2, "" when there is no match
        ofURL(m, group) == IF group # "" THEN [m EXCEPT !.Sitename = group] ELSE m
        \* "Scrap Twitter ID"
        scrapTwitterID(sitename) ==
            IF HasPrefix(sitename, "@") THEN TrimPrefix(sitename, "@") ELSE sitename
        \* "Capitalize"
        capitalize(sitename) ==
            IF ~Contains(sitename, ".") /\ ~IsUpperCh(getRune(sitename, 0)) THEN Title(sitename)
            ELSE sitename
        finish(m) ==
            IF m.Sitename # ""
            THEN [m EXCEPT !.Sitename = capitalize(scrapTwitterID(m.Sitename))]
            ELSE IF m.URL # "" THEN ofURL(m, rxSitenameFinder2Find(m.URL))
            ELSE m
    IN  finish(fallback(metadata))

\* a tags step in which the links of the document come before the meta elements
tagsStepDomFirst(doc, metadata) ==
    LET chosen(tags) == IF Len(tags) # 0 THEN tags ELSE metadata.Tags
        cleaned(tags) == IF Len(tags) # 0 THEN cleanCatTags(tags) ELSE tags
    IN  [metadata EXCEPT !.Tags = cleaned(chosen(extractDomTags(doc)))]

categoriesStep(doc, metadata) ==
    LET fallback(m) ==
            IF Len(m.Categories) = 0 THEN [m EXCEPT !.Categories = extractDomCategories(doc)]
            ELSE m
        clean(m) ==
            IF Len(m.Categories) # 0 THEN [m EXCEPT !.Categories = cleanCatTags(m.Categories)]
            ELSE m
    IN  clean(fallback(metadata))

tagsStep(doc, metadata) ==
    LET fallback(m) == IF Len(m.Tags) = 0 THEN [m EXCEPT !.Tags = extractDomTags(doc)] ELSE m
        clean(m) == IF Len(m.Tags) # 0 THEN [m EXCEPT !.Tags = cleanCatTags(m.Tags)] ELSE m
    IN  clean(fallback(metadata))

(***************************************************************************)
(* The state machine: one call of extractMetadata(doc, defaultURL), its    *)
(* local variable metadata and the statement it is at.  prev holds the     *)
(* records earlier calls on the same arguments returned.  other holds the  *)
(* calls that run at the same time on other trees, each with its own tree, *)
(* default URL, local variable metadata and statement.                     *)
(***************************************************************************)
VARIABLES doc, defaultURL, pc, metadata, prev, other
vars == <<doc, defaultURL, pc, metadata, prev, other>>

InitOn(docs, urls) ==
    /\ doc \in docs
    /\ defaultURL \in urls
    /\ pc = "meta"
    /\ metadata = EmptyMetadata
    /\ prev = <<>>
    /\ other = <<>>

ProcessMetaTags ==
    /\ pc = "meta"
    /\ metadata' = processMetaTags(doc)
    /\ pc' = "jsonld"
    /\ UNCHANGED <<doc, defaultURL, prev, other>>

ExtractJsonLd ==
    /\ pc = "jsonld"
    /\ metadata' \in extractJsonLd(doc, metadata)
    /\ pc' = "title"
    /\ UNCHANGED <<doc, defaultURL, prev, other>>

DomTitle ==
    /\ pc = "title"
    /\ metadata' = IF metadata.Title = "" THEN [metadata EXCEPT !.Title = extractDomTitle(doc)]
                   ELSE metadata
    /\ pc' = "author"
    /\ UNCHANGED <<doc, defaultURL, prev, other>>

DomAuthor ==
    /\ pc = "author"
    /\ metadata' = IF metadata.Author = "" THEN [metadata EXCEPT !.Author = extractDomAuthor(doc)]
                   ELSE metadata
    /\ pc' = "url"
    /\ UNCHANGED <<doc, defaultURL, prev, other>>

DomURL ==
    /\ pc = "url"
    /\ metadata' = IF metadata.URL = "" THEN [metadata EXCEPT !.URL = extractDomURL(doc, defaultURL)]
                   ELSE metadata
    /\ pc' = "hostname"
    /\ UNCHANGED <<doc, defaultURL, prev, other>>

Hostname ==
    /\ pc = "hostname"
    /\ metadata' = hostnameStep(metadata)
    /\ pc' = "sitename"
    /\ UNCHANGED <<doc, defaultURL, prev, other>>

Sitename ==
    /\ pc = "sitename"
    /\ metadata' = sitenameStep(doc, metadata)
    /\ pc' = "categories"
    /\ UNCHANGED <<doc, defaultURL, prev, other>>

Categories ==
    /\ pc = "categories"
    /\ metadata' = categoriesStep(doc, metadata)
    /\ pc' = "tags"
    /\ UNCHANGED <<doc, defaultURL, prev, other>>

Tags ==
    /\ pc = "tags"
    /\ metadata' = tagsStep(doc, metadata)
    /\ pc' = "done"
    /\ UNCHANGED <<doc, defaultURL, prev, other>>

\* a second call of extractMetadata on the same tree and default URL
Rerun ==
    /\ pc = "done"
    /\ prev = <<>>
    /\ prev' = <<metadata>>
    /\ metadata' = EmptyMetadata
    /\ pc' = "meta"
    /\ UNCHANGED <<doc, defaultURL, other>>

Next ==
    \/ ProcessMetaTags
    \/ ExtractJsonLd
    \/ DomTitle
    \/ DomAuthor
    \/ DomURL
    \/ Hostname
    \/ Sitename
    \/ Categories
    \/ Tags

NextTwice == Next \/ Rerun

\* the call has returned
Returned == pc = "done"

\* a statement of extractMetadata that reads the record of the first call
extractMetadataStageShared(at, d, u, m) ==
    CASE at = "meta" -> {processMetaTags(d)}
      [] at = "jsonld" -> extractJsonLd(d, [m EXCEPT !.Author = strOr(m.Author, metadata.Author)])
      [] at = "title" -> {IF m.Title = "" THEN [m EXCEPT !.Title = extractDomTitle(d)] ELSE m}
      [] at = "author" -> {IF m.Author = "" THEN [m EXCEPT !.Author = extractDomAuthor(d)] ELSE m}
      [] at = "url" -> {IF m.URL = "" THEN [m EXCEPT !.URL = extractDomURL(d, u)] ELSE m}
      [] at = "hostname" -> {hostnameStep(m)}
      [] at = "sitename" -> {sitenameStep(d, m)}
      [] at = "categories" -> {categoriesStep(d, m)}
      [] at = "tags" -> {tagsStep(d, m)}

\* the records the local variable metadata of a call on (d, u) can hold after the
\* statement at, when it holds m before it: the statement reads and writes only
\* the tree, the default URL and the local variables of its own call
extractMetadataStage(at, d, u, m) ==
    CASE at = "meta" -> {processMetaTags(d)}
      [] at = "jsonld" -> extractJsonLd(d, m)
      [] at = "title" -> {IF m.Title = "" THEN [m EXCEPT !.Title = extractDomTitle(d)] ELSE m}
      [] at = "author" -> {IF m.Author = "" THEN [m EXCEPT !.Author = extractDomAuthor(d)] ELSE m}
      [] at = "url" -> {IF m.URL = "" THEN [m EXCEPT !.URL = extractDomURL(d, u)] ELSE m}
      [] at = "hostname" -> {hostnameStep(m)}
      [] at = "sitename" -> {sitenameStep(d, m)}
      [] at = "categories" -> {categoriesStep(d, m)}
      [] at = "tags" -> {tagsStep(d, m)}

\* a step of a call that runs at the same time on another tree
OtherStep ==
    LET following(at) ==
            CASE at = "meta" -> "jsonld" [] at = "jsonld" -> "title" [] at = "title" -> "author"
              [] at = "author" -> "url" [] at = "url" -> "hostname"
              [] at = "hostname" -> "sitename" [] at = "sitename" -> "categories"
              [] at = "categories" -> "tags" [] at = "tags" -> "done"
    IN  \E i \in DOMAIN other :
            /\ other[i].pc # "done"
            /\ \E m \in extractMetadataStage(other[i].pc, other[i].doc, other[i].defaultURL,
                                              other[i].metadata) :
                   other' = [other EXCEPT ![i].metadata = m, ![i].pc = following(other[i].pc)]
            /\ UNCHANGED <<doc, defaultURL, pc, metadata, prev>>

NextConcurrent == Next \/ OtherStep

(***************************************************************************)
(* Inputs.  Every specification runs the same program on a family of       *)
(* documents and default URLs.                                             *)
(***************************************************************************)
\* the sequences of at most n elements of S
SeqsUpTo(S, n) == UNION {[1..k -> S] : k \in 0..n}

Link(hreflang, href) == [hreflang |-> hreflang, href |-> href]
Anchor(href, text) == [href |-> href, text |-> text]
Script(type, text) == [type |-> type, text |-> text]
LdJson(f) == Script("application/ld+json", JObj(f))

\* default URLs a caller can pass: none, an absolute URL, a URL with only a path
AbsoluteDefault == [scheme |-> "https", host |-> "www.example.org", path |-> "/base/page"]
DefaultURLs == {NoURL, AbsoluteDefault, [scheme |-> "", host |-> "", path |-> "/only/path"]}

(***************************************************************************)
(* SpecURL: the sources of the URL.                                        *)
(***************************************************************************)

SpecURL ==
    InitOn(LET URLMetaPool ==
                   {Meta("og:url", "", "", "https://og.example.org/2017/09/01/a.html"),
                    Meta("og:url", "", "", "/og/relative"),
                    Meta("", "twitter:url", "", "http://localhost/tw"),
                    Meta("", "twitter:url", "", "tw.example.org/x"),
                    Meta("og:image", "", "", "see https://img.example.org/i.png")}
               \* the canonical link and the alternate links of a document
               URLLinkPool ==
                   {[canonical |-> c, alternates |-> <<>>] :
                       c \in {<<>>, <<"">>, <<" https://canon.example.org:8080/c ">>, <<"/c/d">>, <<"c/d">>,
                              <<"nourl">>, <<"//cdn.example.org/x">>, <<"https:///x">>}}
                   \cup {[canonical |-> <<>>, alternates |-> a] :
                           a \in {<<Link("x-default", "https://alt.example.org")>>,
                                  <<Link("x-default", "/alt"), Link("de", "https://de.example.org/")>>,
                                  <<Link("x-default", "http://first.example.org/"), Link("x-default", "alt")>>}}
           IN
               {[EmptyDoc EXCEPT !.metas = ms, !.canonical = l.canonical, !.alternates = l.alternates] :
                   ms \in SeqsUpTo(URLMetaPool, MaxMetas), l \in URLLinkPool},
           DefaultURLs) /\ [][Next]_vars

\* the text is a scheme, "://" and a host: letters, "://", then a character of a host
HasSchemeAndHost(s) ==
    \E i \in 2..Len(s) :
        /\ \A j \in 1..(i - 1) : IsLetterCh(Ch(s, j))
        /\ MatchAt(s, i, "://")
        /\ i + 3 <= Len(s)
        /\ Ch(s, i + 3) \notin {"/", "?", "#", ":", " "}

\* the default URL is itself an absolute URL
DefaultIsAbsolute == defaultURL # NoURL /\ defaultURL.scheme # "" /\ defaultURL.host # ""

\* C1 as stated: for every tree and every default URL (including none) the URL of
\* the returned record is empty or absolute.
C1_Original == Returned => (metadata.URL = "" \/ HasSchemeAndHost(metadata.URL))

\* C1, amended: when the caller passes no default URL or an absolute one, the URL of
\* the returned record is empty or absolute (scheme and host), whichever source
\* produced it.
C1_URLAbsolute ==
    (Returned /\ (defaultURL = NoURL \/ DefaultIsAbsolute))
        => (metadata.URL = "" \/ HasSchemeAndHost(metadata.URL))

\* a relative canonical link was resolved against the default URL
C1_Witness ==
    /\ Returned
    /\ DefaultIsAbsolute
    /\ doc.canonical = <<"c/d">>
    /\ processMetaTags(doc).URL = ""
    /\ metadata.URL = "https://www.example.org/base/c/d"

\* the host of a URL text: what stands between "//" and the next "/", without
\* user information and port
RECURSIVE HostOfText(_, _)
HostOfText(s, i) ==
    IF i > Len(s) \/ Ch(s, i) \in {"/", ":", "?"} THEN ""
    ELSE Ch(s, i) \o HostOfText(s, i + 1)

\* C4: in the returned record Hostname is the domain of the final URL: it is
\* non-empty exactly when URL is non-empty and a domain can be parsed from it, and
\* it never comes from another source.
C4_Hostname ==
    Returned =>
        /\ metadata.Hostname # "" <=> (metadata.URL # "" /\ extractDomainURL(metadata.URL) # "")
        /\ metadata.Hostname = (IF metadata.URL = "" THEN "" ELSE extractDomainURL(metadata.URL))
        /\ metadata.Hostname # ""
              => \E i \in 1..Len(metadata.URL) :
                    /\ MatchAt(metadata.URL, i, "//")
                    /\ \A j \in 1..(i - 1) : Ch(metadata.URL, j) # "/"
                    /\ metadata.Hostname = HostOfText(metadata.URL, i + 2)

\* the URL came from the canonical link and the host name was cut out of it
C4_Witness ==
    /\ Returned
    /\ processMetaTags(doc).URL = ""
    /\ metadata.URL = "https://canon.example.org:8080/c"
    /\ metadata.Hostname = "canon.example.org"

(***************************************************************************)
(* SpecAuthor: the sources of the author.                                  *)
(***************************************************************************)
\* names as a document gives them, and as white-space normalization leaves them
AuthorNames ==
    {[raw |-> "Jane Doe", clean |-> "Jane Doe"],
     [raw |-> " Jane \n Doe ", clean |-> "Jane Doe"],
     [raw |-> "Jane", clean |-> "Jane"],
     [raw |-> "https://example.org/jane doe", clean |-> "https://example.org/jane doe"],
     [raw |-> "Jane {Doe}", clean |-> "Jane {Doe}"]}

MetaAuthorNames == {"John Smith", "Zed"}

PersonObject(name) == JObj(("@type" :> JStr("Person")) @@ ("name" :> JStr(name)))

\* a JSON-LD script with one Person named name: the author of an Article-like object,
\* the top-level object, an entry of an array of the top-level object, or an entry of
\* a top-level array
PersonScript(shape, name) ==
    CASE shape = "article" ->
            LdJson(("@type" :> JStr("NewsArticle")) @@ ("author" :> PersonObject(name)))
      [] shape = "person" -> LdJson(("@type" :> JStr("Person")) @@ ("name" :> JStr(name)))
      [] shape = "graph" ->
            LdJson(("@context" :> JStr("https://schema.org"))
                   @@ ("@graph" :> JArr(<<PersonObject(name)>>)))
      [] OTHER -> Script("application/ld+json", JArr(<<PersonObject(name)>>))

ObjectShapes == {"article", "person", "graph"}
Shapes == ObjectShapes \cup {"array"}

\* a Person in JSON-LD and another name in <meta name="author">
PersonDoc(shape, name, metaName) ==
    [EmptyDoc EXCEPT !.metas = <<Meta("", "author", "", metaName)>>,
                     !.scripts = <<PersonScript(shape, name)>>]

\* OpenGraph fills the five fields; the author is author
OpenGraphFive(author) ==
    <<Meta("og:title", "", "", "A title"), Meta("og:author", "", "", author),
      Meta("og:url", "", "", "https://og.example.org/a"),
      Meta("og:description", "", "", "A description"),
      Meta("og:site_name", "", "", "Example")>>

SpecAuthor ==
    InitOn({PersonDoc(shape, n.raw, m) : shape \in Shapes, n \in AuthorNames, m \in MetaAuthorNames}
           \cup {[EmptyDoc EXCEPT !.metas = OpenGraphFive(n.raw)] : n \in AuthorNames}
           \cup {[EmptyDoc EXCEPT !.metas = <<Meta("og:author", "", "", n.raw)>>] : n \in AuthorNames}
           \cup {[EmptyDoc EXCEPT !.metas = <<Meta("article:author", "", "", n.raw)>>] : n \in AuthorNames}
           \cup {[EmptyDoc EXCEPT !.metas = <<Meta("", "", "author", n.raw)>>] : n \in AuthorNames}
           \cup {[EmptyDoc EXCEPT !.authorNodes = <<a>>] :
                   a \in {"By Jenny Smith on 12 May 2020", "Jenny", "posted by jenny smith {staff}",
                          "", "von Erika Mustermann am 3. Mai"}},
           {NoURL}) /\ [][Next]_vars

\* what the specification promises of an author
AuthorOK(author) ==
    \/ author = ""
    \/ /\ \E i \in 1..Len(author) : Ch(author, i) = " "
       /\ ~MatchAt(author, 1, "http")
       /\ \A i \in 1..Len(author) : Ch(author, i) \notin {"{", "}", "\\"}

\* C2 as stated: the Author of the returned record is empty or has a space, does not
\* start with "http" and holds none of "{", "}", "\", whatever source it came from,
\* also when OpenGraph alone fills Title, Author, URL, Description and Sitename.
C2_Original == Returned => AuthorOK(metadata.Author)

SpecSitename ==
    InitOn(LET SitenameMetaPool ==
                   {Meta("og:site_name", "", "", "example news"),
                    Meta("og:site_name", "", "", "@example_news"),
                    Meta("", "publisher", "", "acme.org"),
                    Meta("", "twitter:site", "", "@acme"),
                    Meta("og:url", "", "", "http://localhost/x")}
               PublisherScript ==
                   LdJson(("@type" :> JStr("NewsArticle"))
                          @@ ("publisher" :> JObj(("@type" :> JStr("Organization"))
                                                  @@ ("name" :> JStr("the daily planet")))))
           IN
               {[EmptyDoc EXCEPT !.metas = ms, !.headTitle = title, !.scripts = s] :
                   ms \in SeqsUpTo(SitenameMetaPool, MaxMetas),
                   title \in {<<>>, <<"A story - the gazette">>},
                   s \in {<<>>, <<PublisherScript>>}},
           {NoURL, AbsoluteDefault}) /\ [][Next]_vars

\* C3 as stated: a non-empty Sitename of the returned record that holds no "." starts
\* with an upper-case rune, whatever source it came from, the domain of the URL included.
C3_Original ==
    (Returned /\ metadata.Sitename # "" /\ \A i \in 1..Len(metadata.Sitename) :
                                              Ch(metadata.Sitename, i) # ".")
        => Ch(metadata.Sitename, 1) \in {Ch(UpperLetters, i) : i \in 1..Len(UpperLetters)}

(***************************************************************************)
(* SpecCatTags: the sources of the categories and the tags.                *)
(***************************************************************************)

\* the links are matched by the second selector of either table
SpecCatTags ==
    InitOn(LET TagMetaPool ==
                   {Meta("article:tag", "", "", "go, html ; parsing"),
                    Meta("", "keywords", "", " world news ,, politics ;"),
                    Meta("", "keywords", "", " , ; "),
                    Meta("article:section", "", "", "Tech; Science")}
               AnchorPool ==
                   {Anchor("/category/tech", " Tech,  Gadgets "),
                    Anchor(" /tags/go ", "go ; golang"),
                    Anchor("/tags/none", " , "),
                    Anchor("/about", "About us")}
               SectionScripts ==
                   {<<>>,
                    <<LdJson(("@type" :> JStr("Article")) @@ ("articleSection" :> JStr("World, Politics")))>>,
                    <<LdJson(("@type" :> JStr("Article")) @@ ("articleSection" :> JArr(<<JStr("World")>>)))>>,
                    <<LdJson(("@type" :> JStr("Article")) @@ ("articleSection" :> JStr(" ; ")))>>}
           IN
               {[EmptyDoc EXCEPT !.metas = og \o ms, !.scripts = s, !.categoryNodes = <<<<>>, as>>,
                                 !.tagNodes = <<<<>>, as>>] :
                   og \in {<<>>, OpenGraphFive("Jane Doe")},
                   ms \in SeqsUpTo(TagMetaPool, MaxEntries),
                   s \in SectionScripts,
                   as \in {<<>>, <<Anchor("/tags/x", "dom tag"), Anchor("/category/y", "dom category")>>}}
               \cup {[EmptyDoc EXCEPT !.categoryNodes = <<as>>, !.tagNodes = <<as>>] :
                       as \in SeqsUpTo(AnchorPool, MaxEntries)},
           {NoURL}) /\ [][Next]_vars

\* an element as the specification promises it
ElementClean(e) ==
    /\ e # ""
    /\ ~IsSpaceCh(Ch(e, 1)) /\ ~IsSpaceCh(Ch(e, Len(e)))
    /\ \A i \in 1..Len(e) : Ch(e, i) \notin {",", ";"}

AllClean(entries) == \A i \in 1..Len(entries) : ElementClean(entries[i])

\* the characters of s without white space, every run of separators as one ","
\* and none at the start; sep is "start", "sep" or "none"
RECURSIVE Squash(_, _, _)
Squash(s, i, sep) ==
    IF i > Len(s) THEN ""
    ELSE IF IsSpaceCh(Ch(s, i)) THEN Squash(s, i + 1, sep)
    ELSE IF Ch(s, i) \in {",", ";"} THEN Squash(s, i + 1, IF sep = "start" THEN sep ELSE "sep")
    ELSE (IF sep = "sep" THEN "," ELSE "") \o Ch(s, i) \o Squash(s, i + 1, "none")

\* the cleaned entries are the pieces of the raw entries, in their order
PiecesOf(cleaned, raw) == Squash(Join(cleaned, ","), 1, "start") = Squash(Join(raw, ","), 1, "start")

\* C5: every element of Categories and of Tags of the returned record is non-empty, has
\* no white space at either end and holds no "," or ";"; the cleaning step splits each
\* raw entry, from whichever source, on the separators, drops the empty pieces and keeps
\* the order.
C5_CatTagsClean ==
    [][/\ pc = "categories" =>
            PiecesOf(metadata'.Categories,
                     IF Len(metadata.Categories) = 0 THEN extractDomCategories(doc)
                     ELSE metadata.Categories)
       /\ pc = "tags" =>
            PiecesOf(metadata'.Tags,
                     IF Len(metadata.Tags) = 0 THEN extractDomTags(doc) ELSE metadata.Tags)
       /\ pc' = "done" => AllClean(metadata'.Categories) /\ AllClean(metadata'.Tags)]_vars

\* tags of two meta elements and a category of JSON-LD were split and cleaned
C5_Witness ==
    /\ Returned
    /\ doc.metas = <<Meta("article:tag", "", "", "go, html ; parsing"),
                     Meta("", "keywords", "", " world news ,, politics ;")>>
    /\ metadata.Tags = <<"go", "html", "parsing", "world news", "politics">>
    /\ metadata.Categories = <<"World", "Politics">>

\* the tags the scan of the meta elements collects
ScannedTags ==
    metaTagNodes([metadata |-> EmptyMetadata, tmpSitename |-> ""],
                 SelectMetas(doc.metas, FALSE)).metadata.Tags

\* C8 as stated: when OpenGraph alone sets Title, Author, URL, Description and Sitename,
\* the scan of the meta elements still runs, and the contents of the article:tag and
\* keywords elements are in Tags as they are when an OpenGraph field is missing.
C8_Original ==
    (Returned /\ openGraphComplete(extractOpenGraphMeta(doc)) /\ ScannedTags # <<>>)
        => metadata.Tags = cleanCatTags(ScannedTags)

(***************************************************************************)
(* SpecBare: trees without <meta>, JSON-LD, <title> text, <h1>, <h2> and   *)
(* category or tag links.                                                  *)
(***************************************************************************)

SpecBare ==
    InitOn({[EmptyDoc EXCEPT !.headTitle = title, !.scripts = s, !.titleNodes = tn, !.authorNodes = an,
                             !.canonical = l.canonical, !.alternates = l.alternates] :
               title \in {<<>>, <<"">>},
               s \in {<<>>, <<Script("text/javascript", BadText)>>},
               tn \in {<<>>, <<"A title in a selected element">>},
               an \in {<<>>, <<"By Jenny Smith">>},
               l \in {[canonical |-> <<>>, alternates |-> <<>>],
                      [canonical |-> <<"https://canon.example.org/c">>, alternates |-> <<>>],
                      [canonical |-> <<"/c">>, alternates |-> <<>>],
                      [canonical |-> <<>>, alternates |-> <<Link("x-default", "https://alt.example.org/")>>]}},
           DefaultURLs) /\ [][Next]_vars

\* the tree has no <meta>, no JSON-LD script, no <title> (or an empty one), no <h1>,
\* no <h2> and no category or tag link
BareTree ==
    /\ doc.metas = <<>>
    /\ \A i \in 1..Len(doc.scripts) :
          doc.scripts[i].type \notin {"application/ld+json", "application/settings+json"}
    /\ doc.headTitle \in {<<>>, <<"">>}
    /\ doc.h1 = <<>> /\ doc.h2 = <<>>
    /\ \A i \in 1..Len(doc.categoryNodes) : doc.categoryNodes[i] = <<>>
    /\ \A i \in 1..Len(doc.tagNodes) : doc.tagNodes[i] = <<>>

\* C6 as stated: for such a tree every field of the returned record is empty.
C6_Original == (Returned /\ BareTree) => metadata = EmptyMetadata

\* C6, amended: for such a tree that also has no canonical or alternate link and no
\* element the title or author selectors match, and when the caller passes no default
\* URL, every field of the returned record is empty.
C6_AllEmpty ==
    (Returned /\ BareTree /\ defaultURL = NoURL /\ doc.canonical = <<>> /\ doc.alternates = <<>>
     /\ doc.titleNodes = <<>> /\ doc.authorNodes = <<>>)
        => metadata = EmptyMetadata

\* the document whose only content is an empty <title> and a script that is no JSON-LD
C6_Witness ==
    /\ Returned
    /\ doc = [EmptyDoc EXCEPT !.headTitle = <<"">>,
                              !.scripts = <<Script("text/javascript", BadText)>>]
    /\ defaultURL = NoURL
    /\ metadata = EmptyMetadata

(***************************************************************************)
(* SpecJsonLd: JSON-LD objects whose keys Go visits in any order; the call *)
(* is made twice on the same arguments.                                    *)
(***************************************************************************)

SpecJsonLd ==
    InitOn(LET JsonLdScriptPool ==
                   {LdJson(("@type" :> JStr("NewsArticle")) @@ ("headline" :> JStr("The first headline"))
                           @@ ("alternativeHeadline" :> JStr("Another headline"))),
                    LdJson(("editor" :> PersonObject("Jane Doe")) @@ ("writer" :> PersonObject("John Smith"))),
                    LdJson(("main" :> JObj(("@type" :> JStr("Article")) @@ ("name" :> JStr("Main story"))))
                           @@ ("related" :> JObj(("@type" :> JStr("Article")) @@ ("name" :> JStr("Related story"))))),
                    LdJson(("@type" :> JStr("Article")) @@ ("name" :> JStr("One story"))
                           @@ ("author" :> PersonObject("Jane Doe"))),
                    Script("application/ld+json", BadText)}
           IN
               {[EmptyDoc EXCEPT !.scripts = s, !.metas = ms] :
                   s \in {<<>>} \cup {<<script>> : script \in JsonLdScriptPool},
                   ms \in {<<>>, <<Meta("", "author", "", "Meta Author")>>, OpenGraphFive("Jane Doe")}},
           {NoURL}) /\ [][NextTwice]_vars

\* C7 as stated: two runs on the same tree and the same default URL return equal
\* records, also for JSON-LD objects with several keys that contain "headline" and for
\* several Article or Person objects under different keys of one object.
C7_Original == (Returned /\ prev # <<>>) => metadata = prev[1]

(***************************************************************************)
(* SpecDate: the documents of Test_Metadata_Dates.                         *)
(***************************************************************************)

SpecDate ==
    InitOn(LET DateMetaPool ==
                   {Meta("og:published_time", "", "", "2017-09-01"),
                    Meta("og:url", "", "", "https://example.org/2017/09/01/content.html"),
                    Meta("og:title", "", "", "Content"),
                    Meta("", "", "description", "Description")}
           IN
               {[EmptyDoc EXCEPT !.metas = ms] : ms \in SeqsUpTo(DateMetaPool, MaxMetas)},
           {NoURL}) /\ [][Next]_vars

\* C9 as stated: with <meta property="og:published_time" content="2017-09-01">, or with
\* og:url "https://example.org/2017/09/01/content.html", the Date of the returned
\* record is 2017-09-01.
C9_Original ==
    (Returned /\ \E i \in 1..Len(doc.metas) :
                    \/ doc.metas[i] = Meta("og:published_time", "", "", "2017-09-01")
                    \/ doc.metas[i] = Meta("og:url", "", "",
                                           "https://example.org/2017/09/01/content.html"))
        => metadata.Date = "2017-09-01"

(***************************************************************************)
(* SpecChain: the chain of the sources of the URL, with sources that are   *)
(* present and yield nothing usable.                                       *)
(***************************************************************************)

SpecChain ==
    InitOn(LET ChainMetaPool ==
                   {Meta("og:url", "", "", "https://og.example.org/a"),
                    Meta("og:url", "", "", "og.example.org/relative"),
                    Meta("", "twitter:url", "", "https://tw.example.org/t"),
                    Meta("", "twitter:url", "", "/tw/relative")}
           IN
               {[EmptyDoc EXCEPT !.metas = ms, !.canonical = c, !.alternates = a] :
                   ms \in SeqsUpTo(ChainMetaPool, MaxMetas),
                   c \in {<<>>, <<"">>, <<"nourl">>, <<"https://canon.example.org/c">>, <<"/c">>},
                   a \in {<<>>, <<Link("x-default", "https://alt.example.org/")>>,
                          <<Link("de", "https://de.example.org/"), Link("x-default", "/alt")>>}},
           {NoURL, AbsoluteDefault}) /\ [][Next]_vars

\* the first non-empty text of a sequence, "" when there is none
RECURSIVE FirstUsable(_)
FirstUsable(candidates) ==
    IF Len(candidates) = 0 THEN ""
    ELSE IF candidates[1] # "" THEN candidates[1]
    ELSE FirstUsable(Tail(candidates))

\* the absolute URL an accepted href yields, "" when it yields none: the domain of an
\* og: or twitter: element is put before a path, and what is still relative is
\* resolved against the default URL
ChainLink(href) ==
    LET absolute(url, newURL) ==
            IF isAbsoluteURL(url) THEN url ELSE IF isAbsoluteURL(newURL) THEN newURL ELSE ""
        resolved(url) == absolute(url, createAbsoluteURL(url, defaultURL))
    IN  IF href = "" THEN ""
        ELSE resolved(IF HasPrefix(href, "/") THEN addDomain(href, doc.metas) ELSE href)

\* what the meta elements give when the scan of every element runs
ScannedURL ==
    metaTagNodes([metadata |-> extractOpenGraphMeta(doc), tmpSitename |-> ""],
                 SelectMetas(doc.metas, FALSE)).metadata.URL

\* C11 as stated: the URL of the returned record is the value of the first source, in
\* the order og:url, twitter:url, canonical link, alternate x-default link, default URL,
\* that yields a usable value; a source that is present and yields none (an og:url that
\* is not absolute, a canonical link with an empty or rejected href) does not keep the
\* next one from being used.
C11_Original ==
    Returned =>
        metadata.URL = FirstUsable(<<ScannedURL,
                                     IF Len(doc.canonical) > 0
                                     THEN ChainLink(usableHref("", strNormalize(doc.canonical[1])))
                                     ELSE "",
                                     ChainLink(alternateURL("", doc.alternates)),
                                     defaultURLString(defaultURL)>>)

\* C12 as stated: when a document has tag links the tag selectors match and also
\* article:tag or keywords meta elements, the returned Tags are the texts of the links.
C12_Original ==
    (Returned /\ extractDomTags(doc) # <<>> /\ ScannedTags # <<>>)
        => metadata.Tags = cleanCatTags(extractDomTags(doc))

\* C12, amended: the meta elements come first.  When the meta-tag stage collected the
\* content of article:tag or keywords elements (it collects none when OpenGraph alone
\* fills Title, Author, URL, Description and Sitename), the returned Tags are the cleaned
\* pieces of those contents, in document order; the tag links of the document are used
\* only when that stage collected none.
C12_MetaTagsFirst ==
    Returned =>
        metadata.Tags = cleanCatTags(IF ~openGraphComplete(extractOpenGraphMeta(doc))
                                        /\ ScannedTags # <<>>
                                     THEN ScannedTags
                                     ELSE extractDomTags(doc))

\* a document with a tag link and an article:tag element: the element's pieces returned
C12_Witness ==
    /\ Returned
    /\ doc.metas = <<Meta("article:tag", "", "", "go, html ; parsing")>>
    /\ extractDomTags(doc) = <<"dom tag">>
    /\ metadata.Tags = <<"go", "html", "parsing">>

(***************************************************************************)
(* SpecDescription: the sources of the description.                        *)
(***************************************************************************)
SpecDescription ==
    InitOn(LET DescriptionMetaPool ==
                   {Meta("", "", "description", "Itemprop text"),
                    Meta("", "description", "", "Name text"),
                    Meta("", "Twitter:Description", "", " Twitter \n text "),
                    Meta("", "generator", "description", "Name that is no description"),
                    Meta("article:summary", "description", "", "With a property"),
                    Meta("", "dc.description", "", "  "),
                    Meta("og:description", "", "", "OpenGraph text")}
           IN
               {[EmptyDoc EXCEPT !.metas = ms] : ms \in SeqsUpTo(DescriptionMetaPool, MaxMetas)},
           {NoURL}) /\ [][Next]_vars

\* a <meta> with content and nothing but itemprop="description"
ItempropDescription(node) ==
    /\ node.itemprop = "description" /\ node.name = "" /\ node.property = ""
    /\ strNormalize(node.content) # ""

\* a <meta> with content and nothing but a name of the description set
NameDescription(node) ==
    /\ strNormalize(ToLower(node.name)) \in metaNameDescription
    /\ node.itemprop = "" /\ node.property = ""
    /\ strNormalize(node.content) # ""

NoOpenGraphDescription ==
    \A i \in 1..Len(doc.metas) : strNormalize(doc.metas[i].property) # "og:description"

\* C13 as stated: without og:description, when the document has an itemprop
\* description and a name description with another content, Description is the
\* itemprop content, whichever of the two comes first in the document.
C13_Original ==
    \A i, j \in 1..Len(doc.metas) :
        (/\ Returned /\ NoOpenGraphDescription
         /\ ItempropDescription(doc.metas[i]) /\ NameDescription(doc.metas[j])
         /\ doc.metas[i].content # doc.metas[j].content)
            => metadata.Description = strNormalize(doc.metas[i].content)

\* the content of the first element, in document order, that the scan takes as a
\* description: it has content and no property, and either its name is in the
\* description set or it has no name and its itemprop is "description"
RECURSIVE FirstDescription(_)
FirstDescription(nodes) ==
    IF Len(nodes) = 0 THEN ""
    ELSE IF /\ strNormalize(nodes[1].content) # ""
            /\ strNormalize(nodes[1].property) = ""
            /\ \/ strNormalize(ToLower(nodes[1].name)) \in metaNameDescription
               \/ /\ strNormalize(ToLower(nodes[1].name)) = ""
                  /\ strNormalize(nodes[1].itemprop) = "description"
         THEN strNormalize(nodes[1].content)
    ELSE FirstDescription(Tail(nodes))

\* C13, amended: OpenGraph comes first, and after it the document order decides, not the
\* attribute.  Without og:description, when the document has an itemprop description
\* and a name description with another content, Description is the white-space-normalized
\* content of the first element, in document order, that the scan takes as a description.
C13_FirstInDocument ==
    (Returned /\ NoOpenGraphDescription) => metadata.Description = FirstDescription(doc.metas)

\* the name description stands before the itemprop description and is returned
C13_Witness ==
    /\ Returned
    /\ doc.metas = <<Meta("", "description", "", "Name text"),
                     Meta("", "", "description", "Itemprop text")>>
    /\ metadata.Description = "Name text"

(***************************************************************************)
(* SpecAuthorType: the author field of a JSON-LD article, with objects of  *)
(* the type Person and of other types.                                     *)
(***************************************************************************)
SpecAuthorType ==
    InitOn(LET \* an object that is no Person; only such objects carry the name "Acme Corp"
               OrganizationObject ==
                   JObj(("@type" :> JStr("Organization")) @@ ("name" :> JStr("Acme Corp")))
               AuthorValues ==
                   <<OrganizationObject,
                     PersonObject("Jane Doe"),
                     JObj("name" :> JStr("Untyped Name")),
                     JStr("Jane Doe"),
                     JArr(<<OrganizationObject>>),
                     JArr(<<PersonObject("Jane Doe"), OrganizationObject>>),
                     JArr(<<JStr("John Smith"), PersonObject("Jane Doe")>>),
                     JArr(<<JStr(""), JStr("Jane Doe")>>),
                     JArr(<<JStr("Jane Doe"), JStr("  ")>>),
                     JArr(<<JStr("Jane Doe"), JStr(""), JStr("John Smith")>>),
                     JArr(<<JObj("name" :> JStr(" ")), PersonObject("Jane Doe"),
                            JObj("@type" :> JStr("Person"))>>)>>
           IN
               {[EmptyDoc EXCEPT !.metas = ms,
                                 !.scripts = <<LdJson(("@type" :> JStr(type))
                                                      @@ ("author" :> AuthorValues[i]))>>] :
                   ms \in {<<>>, <<Meta("", "author", "", "Meta Author")>>},
                   type \in {"NewsArticle", "Report"},
                   i \in DOMAIN AuthorValues},
           {NoURL}) /\ [][Next]_vars

\* C14 as stated: an object whose @type is a string other than "Person" contributes no
\* name to the Author, as the value of the article's author field or as an entry of an
\* author array.
C14_Original == Returned => ~Contains(metadata.Author, "Acme Corp")

(***************************************************************************)
(* SpecTraversal: a Person or an Article at the places of a parsed JSON-LD *)
(* value that objects and arrays lead to.                                  *)
(***************************************************************************)
\* the parsed value with the object found at a place
PlacedAt(place, found) ==
    CASE place = "top" -> found
      [] place = "key" -> JObj(("@context" :> JStr("https://schema.org")) @@ ("main" :> found))
      [] place = "graph" ->
            JObj(("@context" :> JStr("https://schema.org"))
                 @@ ("@graph" :> JArr(<<JObj("@type" :> JStr("WebSite")), found>>)))
      [] place = "deep" ->
            JObj("@graph" :> JArr(<<JObj(("@type" :> JStr("WebPage"))
                                         @@ ("mainEntity" :> JObj("item" :> found)))>>))
      [] place = "array of arrays" -> JObj("@graph" :> JArr(<<JArr(<<found>>)>>))
      [] OTHER -> JArr(<<found>>)

Places == {"top", "key", "graph", "deep", "array of arrays", "top array"}

\* the document with one JSON-LD script that holds a Person or an Article at a place
TraversalDoc(place, kind, ms) ==
    [EmptyDoc EXCEPT !.metas = ms,
                     !.scripts = <<Script("application/ld+json",
                                          PlacedAt(place,
                                                   IF kind = "Person" THEN PersonObject("Jane Doe")
                                                   ELSE JObj(("@type" :> JStr(kind))
                                                             @@ ("name" :> JStr("Main story")))))>>]

SpecTraversal ==
    InitOn({TraversalDoc(place, kind, ms) :
                place \in Places,
                kind \in {"Person", "NewsArticle", "SocialMediaPosting"},
                ms \in {<<>>, <<Meta("", "description", "", "A description")>>}},
           {NoURL}) /\ [][Next]_vars

\* a collected Person gives the Author, a collected Article the Title
CollectedAt(place) ==
    \A kind \in {"Person", "NewsArticle", "SocialMediaPosting"} :
        (\E i \in 1..Len(doc.scripts) :
            doc.scripts[i].text = TraversalDoc(place, kind, <<>>).scripts[1].text)
            => IF kind = "Person" THEN metadata.Author = "Jane Doe"
               ELSE metadata.Title = "Main story"

\* C15 as stated: the traversal visits every object that objects and arrays lead to and
\* that is not inside a collected Person or Article, whether the top-level value is an
\* object or an array; a Person or an Article at any such place is collected.
C15_Original == Returned => \A place \in Places : CollectedAt(place)

(***************************************************************************)
(* SpecPublisher: the site name of the meta elements, the deferred         *)
(* candidate and the publisher of JSON-LD.                                 *)
(***************************************************************************)
SpecPublisher ==
    InitOn(LET \* a JSON-LD script with an article and its publisher
               PublisherArticle(publisher) ==
                   LdJson(("@type" :> JStr("NewsArticle")) @@ ("publisher" :> publisher))
               NamedPublisher(name) ==
                   JObj(("@type" :> JStr("Organization")) @@ ("name" :> JStr(name)))
               PublisherMetaPool ==
                   {Meta("og:site_name", "", "", "Acme News"),
                    Meta("", "publisher", "", "Acme"),
                    Meta("", "twitter:site", "", "Acme On Twitter"),
                    Meta("", "application-name", "", "Acme App")}
               PublisherScripts ==
                   {<<>>,
                    <<PublisherArticle(NamedPublisher("Acme"))>>,
                    <<PublisherArticle(NamedPublisher(" Café  News "))>>,
                    <<PublisherArticle(NamedPublisher("The Acme Daily News"))>>,
                    <<PublisherArticle(JStr("Café News"))>>,
                    <<LdJson(("@type" :> JStr("NewsArticle")) @@ ("name" :> JStr("A story")))>>}
           IN
               {[EmptyDoc EXCEPT !.metas = ms, !.scripts = s] :
                   ms \in SeqsUpTo(PublisherMetaPool, MaxMetas), s \in PublisherScripts},
           {NoURL}) /\ [][Next]_vars

\* the name of the publisher in the JSON-LD of the document, "" when there is none
PublisherOf(scripts) ==
    LET name(publisher) ==
            IF publisher.t = "s" THEN publisher.v ELSE publisher.v["name"].v
    IN  IF Len(scripts) = 0 \/ "publisher" \notin DOMAIN scripts[1].text.v THEN ""
        ELSE strNormalize(name(scripts[1].text.v["publisher"]))

\* the contents of the elements that give the deferred candidate
TwitterCandidates ==
    {strNormalize(doc.metas[i].content) :
        i \in {k \in 1..Len(doc.metas) : doc.metas[k].name \in {"twitter:site", "application-name"}}}

\* og:site_name, a publisher element or the publisher of JSON-LD gives a site name
OtherSitenameSource ==
    \/ \E i \in 1..Len(doc.metas) :
          doc.metas[i].property = "og:site_name" \/ doc.metas[i].name \in metaNamePublisher
    \/ PublisherOf(doc.scripts) # ""

\* C16 as stated: the deferred candidate of twitter:site, application-name or
\* twitter:app:name is adopted only after every source was consulted and Sitename is
\* still empty; whenever og:site_name, a publisher element or the publisher of JSON-LD
\* gives a Sitename, the returned Sitename is not the candidate.
C16_Original ==
    (Returned /\ OtherSitenameSource) => metadata.Sitename \notin TwitterCandidates

\* C18: the merge step of extractJsonLd replaces Sitename by the name of the JSON-LD
\* publisher exactly when that name has strictly more runes than the current Sitename;
\* with as many or fewer runes, or without a JSON-LD publisher, the step leaves Sitename
\* as it is.
C18_SitenameLonger ==
    [][pc = "jsonld" =>
          metadata'.Sitename = IF Len(PublisherOf(doc.scripts)) > Len(metadata.Sitename)
                               THEN PublisherOf(doc.scripts)
                               ELSE metadata.Sitename]_vars

\* a publisher with as many runes as the site name of og:site_name, and more bytes,
\* did not replace it
C18_Witness ==
    /\ pc = "title"
    /\ doc.metas = <<Meta("og:site_name", "", "", "Acme News")>>
    /\ PublisherOf(doc.scripts) = "Café News"
    /\ metadata.Sitename = "Acme News"

(***************************************************************************)
(* SpecSiteURL: documents whose site name is empty or only "@", and a URL. *)
(***************************************************************************)
SpecSiteURL ==
    InitOn(LET SiteURLMetaPool ==
                   {Meta("og:site_name", "", "", "@"),
                    Meta("", "twitter:site", "", " @ "),
                    Meta("og:site_name", "", "", "@acme"),
                    Meta("og:url", "", "", "https://www.example.org/a"),
                    Meta("og:url", "", "", "http://w3.example.org/b"),
                    Meta("", "twitter:url", "", "https://news.example.org")}
           IN
               {[EmptyDoc EXCEPT !.metas = ms, !.headTitle = title] :
                   ms \in SeqsUpTo(SiteURLMetaPool, MaxMetas),
                   title \in {<<>>, <<"A story">>}},
           {NoURL, AbsoluteDefault}) /\ [][Next]_vars

\* the text starts with http:// or https://, in any case of the letters
IsHttpURL(url) == HasPrefix(ToLower(url), "http://") \/ HasPrefix(ToLower(url), "https://")

\* a host name without a leading "www." or "w<digits>."
WithoutWww(host) ==
    LET digits == {k \in 2..(Len(host) - 1) :
                      /\ \A j \in 2..k : IsDigitCh(Ch(host, j))
                      /\ Ch(host, k + 1) = "."}
    IN  IF HasPrefix(host, "www.") THEN SubSeq(host, Len("www.") + 1, Len(host))
        ELSE IF Ch(host, 1) = "w" /\ digits # {}
             THEN SubSeq(host, (CHOOSE k \in digits : TRUE) + 2, Len(host))
        ELSE host

\* the host of an http(s) URL
HostOfURL(url) ==
    HostOfText(url, (CHOOSE i \in 1..Len(url) : MatchAt(url, i, "://")) + Len("://"))

\* C17 as stated: whenever Sitename is empty after every other source and normalization
\* step, also when stripping a leading "@" leaves it empty, and URL is a non-empty
\* http(s) URL, the returned Sitename is the host of the URL without a leading "www."
\* or "w<digits>.".
C17_Original ==
    [][(/\ pc = "sitename"
        /\ (IF metadata.Sitename = "" THEN extractDomSitename(doc) ELSE metadata.Sitename)
              \in {"", "@"}
        /\ IsHttpURL(metadata.URL))
          => metadata'.Sitename = WithoutWww(HostOfURL(metadata.URL))]_vars

(***************************************************************************)
(* SpecFrame: documents whose meta elements give a title, a description    *)
(* and a URL, and whose JSON-LD, headings, title element, canonical link   *)
(* and default URL give competing values.                                  *)
(***************************************************************************)
SpecFrame ==
    InitOn(LET FrameMetaPool ==
                   {Meta("og:title", "", "", "Meta title"),
                    Meta("", "description", "", "Meta description"),
                    Meta("og:title", "", "", "  Padded   title "),
                    Meta("og:url", "", "", "https://og.example.org/a")}
               FrameScripts ==
                   {<<>>,
                    <<LdJson(("@type" :> JStr("NewsArticle"))
                             @@ ("headline" :> JStr("JSON-LD headline"))
                             @@ ("publisher" :> JStr("Acme")))>>}
           IN
               {[EmptyDoc EXCEPT !.metas = ms, !.scripts = s, !.headTitle = t, !.h1 = h,
                                 !.titleNodes = tn, !.canonical = c] :
                   ms \in SeqsUpTo(FrameMetaPool, MaxMetas), s \in FrameScripts,
                   t \in {<<>>, <<"Head title">>}, h \in {<<>>, <<"Heading of the page">>},
                   tn \in {<<>>, <<"Selected title">>},
                   c \in {<<>>, <<"https://canon.example.org/c">>}},
           {NoURL, AbsoluteDefault}) /\ [][Next]_vars

\* C19: a Title, Description or URL that is non-empty on return from
\* processMetaTags is the value of the field in the record extractMetadata
\* returns: the later stages write these three fields only when they are empty.
C19_FilledKept ==
    LET kept(first) ==
            /\ first.Title # "" => metadata.Title = first.Title
            /\ first.Description # "" => metadata.Description = first.Description
            /\ first.URL # "" => metadata.URL = first.URL
    IN  Returned => kept(processMetaTags(doc))

\* the meta elements give a title and a URL, and JSON-LD, a heading, the title
\* element, the canonical link and the default URL all have other values
C19_Witness ==
    /\ Returned
    /\ doc.metas = <<Meta("og:title", "", "", "Meta title"),
                     Meta("og:url", "", "", "https://og.example.org/a")>>
    /\ Len(doc.scripts) = 1 /\ Len(doc.h1) = 1 /\ Len(doc.headTitle) = 1
    /\ Len(doc.canonical) = 1
    /\ defaultURL = AbsoluteDefault
    /\ metadata.Title = "Meta title"
    /\ metadata.URL = "https://og.example.org/a"
    /\ metadata.Sitename = "Acme"

(***************************************************************************)
(* SpecUnparsable: documents with several JSON-LD scripts, some of which   *)
(* hold text that is no JSON.                                              *)
(***************************************************************************)
SpecUnparsable ==
    InitOn(LET UnparsablePool ==
                   {Script("application/ld+json", BadText),
                    Script("application/settings+json", BadText),
                    LdJson(("@type" :> JStr("NewsArticle"))
                           @@ ("headline" :> JStr("The first headline"))
                           @@ ("author" :> PersonObject("Jane Doe"))),
                    Script("application/settings+json",
                           JObj(("@type" :> JStr("Article")) @@ ("name" :> JStr("Settings story"))
                                @@ ("publisher" :> JStr("Acme"))))}
           IN
               {[EmptyDoc EXCEPT !.scripts = s, !.metas = ms, !.h1 = h] :
                   s \in SeqsUpTo(UnparsablePool, MaxScripts),
                   ms \in {<<>>, <<Meta("", "author", "", "Meta Author")>>},
                   h \in {<<>>, <<"Heading of the page">>}},
           {NoURL}) /\ [][Next]_vars

\* the document without the JSON-LD scripts whose text is no JSON
WithoutUnparsable(d) ==
    [d EXCEPT !.scripts = SelectSeq(d.scripts, LAMBDA script : script.text # BadText)]

\* every stage does to the record what it does for the document d
StagesAsOn(d) ==
    /\ pc = "meta" => metadata' = processMetaTags(d)
    /\ pc = "jsonld" => metadata' \in extractJsonLd(d, metadata)
    /\ pc = "title" =>
           metadata' = IF metadata.Title = ""
                       THEN [metadata EXCEPT !.Title = extractDomTitle(d)]
                       ELSE metadata
    /\ pc = "author" =>
           metadata' = IF metadata.Author = ""
                       THEN [metadata EXCEPT !.Author = extractDomAuthor(d)]
                       ELSE metadata
    /\ pc = "url" =>
           metadata' = IF metadata.URL = ""
                       THEN [metadata EXCEPT !.URL = extractDomURL(d, defaultURL)]
                       ELSE metadata
    /\ pc = "hostname" => metadata' = hostnameStep(metadata)
    /\ pc = "sitename" => metadata' = sitenameStep(d, metadata)
    /\ pc = "categories" => metadata' = categoriesStep(d, metadata)
    /\ pc = "tags" => metadata' = tagsStep(d, metadata) /\ pc' = "done"

OgTitles(d) ==
    LET contents(ms) == [i \in 1..Len(ms) |-> strNormalize(ms[i].content)]
    IN  SelectSeq(contents(SelectSeq(d.metas, LAMBDA m : m.property = "og:title")),
                  LAMBDA content : content # "")

\* C21: when an og:title element with non-empty (whitespace-normalized)
\* content and a <title> element with another text are present, the returned
\* Title is that og:title content (of the last such element when there are
\* several), whatever JSON-LD, <h1> and title selectors offer.
C21_OgTitleWins ==
    LET wins(titles) ==
            (Len(titles) > 0 /\ Len(doc.headTitle) > 0 /\ doc.headTitle[1] # titles[Len(titles)])
                => metadata.Title = titles[Len(titles)]
    IN  Returned => wins(OgTitles(doc))

\* og:title wins over the title element, a JSON-LD headline, the only <h1> and a
\* node of the title selectors
C21_Witness ==
    /\ Returned
    /\ doc.metas = <<Meta("og:title", "", "", "Meta title")>>
    /\ doc.headTitle = <<"Head title">>
    /\ Len(doc.scripts) = 1 /\ Len(doc.h1) = 1 /\ Len(doc.titleNodes) = 1
    /\ metadata.Title = "Meta title"

(***************************************************************************)
(* SpecPersons: documents with several JSON-LD scripts that hold an        *)
(* article with an author under "main", a Person under "contributor", or   *)
(* a Person as the top-level object.                                       *)
(***************************************************************************)
SpecPersons ==
    InitOn(LET ArticleBy(name) ==
                   JObj(("@type" :> JStr("NewsArticle")) @@ ("author" :> PersonObject(name)))
               PersonsPool ==
                   {LdJson(PersonObject("Zed Roe").v),
                    LdJson(("main" :> ArticleBy("Jane Doe"))),
                    LdJson(("main" :> ArticleBy("Jane Doe"))
                           @@ ("contributor" :> PersonObject("John Smith"))),
                    LdJson(("main" :> ArticleBy("Acme"))
                           @@ ("contributor" :> PersonObject("John Smith")))}
           IN
               {[EmptyDoc EXCEPT !.scripts = s, !.metas = ms] :
                   s \in SeqsUpTo(PersonsPool, MaxScripts),
                   ms \in {<<>>, <<Meta("", "author", "", "Meta Author")>>}},
           {NoURL}) /\ [][Next]_vars

\* the valid author of the article of a script, "" when it has none
ArticleAuthor(script) ==
    IF "main" \in DOMAIN script.text.v
    THEN validateMetadataAuthor(script.text.v["main"].v["author"].v["name"].v)
    ELSE ""

\* the valid name of the Person of a script outside its article, "" when it has none
PersonName(script) ==
    IF "contributor" \in DOMAIN script.text.v
    THEN validateMetadataAuthor(script.text.v["contributor"].v["name"].v)
    ELSE IF "main" \in DOMAIN script.text.v THEN ""
    ELSE validateMetadataAuthor(script.text.v["name"].v)

\* the first script that satisfies a test; there is one
FirstScript(scripts, Test(_)) ==
    scripts[CHOOSE i \in 1..Len(scripts) :
                Test(scripts[i]) /\ \A j \in 1..(i - 1) : ~Test(scripts[j])]

\* C22 as stated: when any script has an article with a valid Person author,
\* the author of the JSON-LD stage is an article author, wherever the Person
\* objects are.
C22_Original ==
    [][(/\ pc = "jsonld"
        /\ \E i \in 1..Len(doc.scripts) : ArticleAuthor(doc.scripts[i]) # "")
       => metadata'.Author =
              ArticleAuthor(FirstScript(doc.scripts, LAMBDA s : ArticleAuthor(s) # ""))]_vars

\* C22: the Person fallback is used script by script: the author of the JSON-LD
\* stage comes from the first script that offers a valid author; it is the
\* author of the article of that script when the article has a valid Person
\* author, and the name of the Person of that script only otherwise.
C22_FirstOfferingScript ==
    [][(/\ pc = "jsonld"
        /\ \E i \in 1..Len(doc.scripts) :
              ArticleAuthor(doc.scripts[i]) # "" \/ PersonName(doc.scripts[i]) # "")
       => LET from(script) ==
                  IF ArticleAuthor(script) # "" THEN ArticleAuthor(script)
                  ELSE PersonName(script)
          IN  metadata'.Author =
                  from(FirstScript(doc.scripts,
                                   LAMBDA s : ArticleAuthor(s) # "" \/ PersonName(s) # ""))]_vars

\* the article author of a script was taken although the script has a Person too
\* and a later script has only a Person
C22_Witness ==
    /\ pc = "title"
    /\ Len(doc.scripts) = 2
    /\ ArticleAuthor(doc.scripts[1]) = "Jane Doe" /\ PersonName(doc.scripts[1]) = "John Smith"
    /\ PersonName(doc.scripts[2]) = "Zed Roe"
    /\ metadata.Author = "Jane Doe"

\* the document has a JSON-LD article whose articleSection is no string
SectionNotString ==
    /\ Len(doc.scripts) = 1
    /\ "articleSection" \in DOMAIN doc.scripts[1].text.v
    /\ doc.scripts[1].text.v["articleSection"].t # "s"

\* C23 as stated: an articleSection that is no string is treated as absent: the
\* JSON-LD stage leaves Categories as they were, and the returned Categories are
\* those of the /category/ links and the article:section fallback.
C23_Original ==
    /\ (pc = "title" /\ SectionNotString) => metadata.Categories = <<>>
    /\ (Returned /\ SectionNotString) => metadata.Categories = cleanCatTags(extractDomCategories(doc))

(***************************************************************************)
(* SpecTitle: documents without meta elements and JSON-LD whose <h1>,      *)
(* title selectors, <title> and <h2> are absent, empty or filled.          *)
(***************************************************************************)
SpecTitle ==
    InitOn({[EmptyDoc EXCEPT !.h1 = h, !.titleNodes = tn, !.headTitle = t, !.h2 = g] :
               h \in {<<>>, <<"">>, <<" ">>, <<"Only heading">>, <<"", "Second heading">>,
                      <<"First heading", "Second heading">>},
               tn \in {<<>>, <<"">>, <<"", "Selected title">>},
               t \in {<<>>, <<"">>, <<"Head title">>, <<"Head title - Site name">>},
               g \in {<<>>, <<" ">>, <<"Sub heading">>}},
           {NoURL}) /\ [][Next]_vars

\* the candidates of the chain of the title, in order
TitleChain(d) ==
    LET cleaned(title, matches) == IF matches.matched THEN matches.group ELSE title
        headTitle(title) == cleaned(title, rxTitleCleanerFind(title))
    IN  <<IF Len(d.h1) = 1 THEN strNormalize(d.h1[1]) ELSE "",
          extractDomMetaSelectors(d.titleNodes, TitleRuneLimit),
          IF Len(d.headTitle) > 0 THEN headTitle(strNormalize(d.headTitle[1])) ELSE "",
          IF Len(d.h1) > 0 THEN TrimSpace(d.h1[1]) ELSE "",
          IF Len(d.h2) > 0 THEN TrimSpace(d.h2[1]) ELSE "">>

\* C24 as stated: the title of the DOM is the first non-empty candidate of the
\* chain unique <h1>, title selectors, cleaned <title>, first <h1>, first <h2>,
\* and is empty only if every candidate is empty.
C24_Original == Returned => metadata.Title = FirstUsable(TitleChain(doc))

(***************************************************************************)
(* SpecClassify: documents whose <meta> elements carry several of the      *)
(* attributes property, name and itemprop.                                 *)
(***************************************************************************)
SpecClassify ==
    InitOn(LET ClassifyPool ==
                   {Meta("custom", "author", "", "Jane Doe"),
                    Meta("custom", "", "headline", "A headline"),
                    Meta("article:tag", "description", "author", "John Smith"),
                    Meta("og:type", "keywords", "description", "an article"),
                    Meta("", "generator", "author", "Zed Roe"),
                    Meta("", "description", "headline", "Some text"),
                    Meta("", "", "author", "Ann Lee")}
           IN
               {[EmptyDoc EXCEPT !.metas = ms] : ms \in SeqsUpTo(ClassifyPool, MaxMetas)},
           {NoURL, AbsoluteDefault}) /\ [][Next]_vars

\* the document in which every <meta> element keeps only the first of the
\* attributes property, name and itemprop that it has
FirstAttributeOnly(d) ==
    LET only(m) ==
            IF m.property # "" THEN [m EXCEPT !.name = "", !.itemprop = ""]
            ELSE IF m.name # "" THEN [m EXCEPT !.itemprop = ""]
            ELSE m
    IN  [d EXCEPT !.metas = [i \in 1..Len(d.metas) |-> only(d.metas[i])]]

\* C25: the meta-tag scan classifies an element by the first attribute it has
\* in the order property, name, itemprop: the name and itemprop of an element
\* with a property, and the itemprop of an element with a name, are never
\* consulted, whatever the value of the first attribute is.
C25_FirstAttribute == pc = "jsonld" => metadata = processMetaTags(FirstAttributeOnly(doc))

\* the scan has left Author, Title and Tags empty for elements whose property
\* or name is unknown and whose name or itemprop names the author or the title
C25_Witness ==
    /\ pc = "jsonld"
    /\ doc.metas = <<Meta("custom", "author", "", "Jane Doe"),
                     Meta("", "generator", "author", "Zed Roe")>>
    /\ metadata = EmptyMetadata

(***************************************************************************)
(* SpecNesting: documents whose JSON-LD script holds an article inside     *)
(* objects or arrays nested up to MaxNesting deep.                         *)
(***************************************************************************)
SpecNesting ==
    InitOn(LET RECURSIVE Nested(_, _)
               Nested(n, kind) ==
                   IF n = 1
                   THEN ("@type" :> JStr("Article")) @@ ("name" :> JStr("Deep story"))
                   ELSE IF kind = "key" THEN ("child" :> JObj(Nested(n - 1, kind)))
                   ELSE ("items" :> JArr(<<JStr("text"), JObj(Nested(n - 1, kind))>>))
           IN
               {[EmptyDoc EXCEPT !.scripts = <<LdJson(Nested(n, kind))>>, !.metas = ms] :
                   n \in 1..MaxNesting, kind \in {"key", "array"},
                   ms \in {<<>>, <<Meta("", "author", "", "Meta Author")>>}},
           {NoURL, AbsoluteDefault}) /\ [][Next]_vars

SpecConcurrent ==
    /\ doc \in {[EmptyDoc EXCEPT !.metas = <<Meta("og:title", "", "", "First title"),
                                             Meta("", "author", "", "Jane Doe"),
                                             Meta("", "keywords", "", "go, html")>>,
                                 !.scripts = s] :
                   s \in {<<>>, <<LdJson(("@type" :> JStr("Article"))
                                         @@ ("author" :> PersonObject("John Smith")))>>}}
    /\ defaultURL \in {NoURL, AbsoluteDefault}
    /\ pc = "meta"
    /\ metadata = EmptyMetadata
    /\ prev = <<>>
    /\ other \in {<<[doc |-> [EmptyDoc EXCEPT !.headTitle = <<"Second title - Site">>,
                                              !.scripts = s,
                                              !.canonical = <<"https://canon.example.org/c">>],
                     defaultURL |-> NoURL, pc |-> "meta", metadata |-> EmptyMetadata]>> :
                     s \in {<<>>, <<LdJson(("@type" :> JStr("Article"))
                                           @@ ("articleSection" :> JStr("World, Politics")))>>}}
    /\ [][NextConcurrent]_vars

\* the records a call on (d, u) returns when it runs alone
RecordsAlone(d, u) ==
    {tagsStep(d, categoriesStep(d, sitenameStep(d, hostnameStep(
         IF m.URL = "" THEN [m EXCEPT !.URL = extractDomURL(d, u)] ELSE m)))) :
        m \in {IF a.Author = "" THEN [a EXCEPT !.Author = extractDomAuthor(d)] ELSE a :
                 a \in {IF t.Title = "" THEN [t EXCEPT !.Title = extractDomTitle(d)] ELSE t :
                          t \in extractJsonLd(d, processMetaTags(d))}}}

SpecCandidates ==
    InitOn(LET CandidatePool ==
                   {Meta("og:author", "", "", "Olga"),
                    Meta("og:article:author", "", "", "Olga Og"),
                    Meta("author", "", "", "Pat"),
                    Meta("article:author", "", "", "Paula Prop"),
                    Meta("", "author", "", "https://example.org/nora name"),
                    Meta("", "byl", "", "Nora Name"),
                    Meta("", "", "author", "Ivy Item")}
           IN
               {[EmptyDoc EXCEPT !.metas = og \o ms] :
                   og \in {<<>>, OpenGraphFive("Olga")},
                   ms \in SeqsUpTo(CandidatePool, MaxMetas)},
           {NoURL}) /\ [][Next]_vars

\* the contents of the author candidates of the <meta> elements, in document order:
\* those of OpenGraph, or those of the scan
AuthorCandidates(d, openGraph) ==
    LET candidate(m) ==
            IF openGraph THEN m.property \in {"og:author", "og:article:author"}
            ELSE \/ m.property \in {"author", "article:author"}
                 \/ m.property = "" /\ m.name \in metaNameAuthor
                 \/ m.property = "" /\ m.name = "" /\ m.itemprop = "author"
        contents(ms) == [i \in 1..Len(ms) |-> strNormalize(ms[i].content)]
    IN  contents(SelectSeq(d.metas, candidate))

C29_Original ==
    (pc = "title" /\ metadata.Author # "")
        => /\ ~HasPrefix(metadata.Author, "; ")
           /\ ~MatchAt(metadata.Author, Len(metadata.Author) - 1, "; ")
           /\ ~Contains(metadata.Author, "; ; ")

\* C30 as stated: the returned Tags are empty only if the tags of the <meta>
\* elements hold no item after cleaning and no tag link is matched; the
\* returned Categories are empty only if no category link and no
\* article:section element gives a category.
C30_Original ==
    /\ (Returned /\ metadata.Tags = <<>>)
           => cleanCatTags(ScannedTags) = <<>> /\ extractDomTags(doc) = <<>>
    /\ (Returned /\ metadata.Categories = <<>>) => extractDomCategories(doc) = <<>>

=============================================================================
